---- MODULE Spec2Model ----
(***************************************************************************)
(* Model of the multi-agent code-review orchestrator of                    *)
(* .pi/extensions/code-review.ts: the concurrency-limited map              *)
(* (mapWithConcurrencyLimit), the reviewer invocation (runReviewAgent),    *)
(* the per-model job with its lock retry, and the start / stop command     *)
(* handlers that share activeAbortController.                              *)
(*                                                                         *)
(* One step of the model is one task of the event loop: a command handler  *)
(* up to its first await, a timer callback, or a child-process event,      *)
(* together with every promise continuation that runs before the next      *)
(* task (the job's return, the worker's next claim, Promise.all resolving, *)
(* the handler's report and its finally block).                            *)
(***************************************************************************)
EXTENDS Integers, Sequences, FiniteSets, TLC

\* ------------------------------------------------------------------ bounds
NumSessions == 2      \* start requests handled in one behaviour
MaxModels == 2        \* reviewer models one session may select
MaxStops == 1         \* stop requests handled in one behaviour
MaxItems == 3         \* items of a Task Runner run with a generic job
MaxCap == 2           \* largest concurrency cap tried with a generic job
MaxResults == 3       \* agent results given to the consolidator
MaxProse == 1         \* tokens of prose on each side of a document
MaxTicks == 6         \* steps of the clock in a timed Task Runner run
TickMs == 750         \* the milliseconds of one step of the clock
MaxExtraProviders == 3 \* secondary providers with a model in the environment
MaxLines == 2         \* lines a reviewer writes to its stdout

\* ------------------------------------------------------- program constants
MAX_CONCURRENCY == 4
STAGGER_DELAY_MS == 1500
LOCK_RETRY_ATTEMPTS == 2
LOCK_RETRY_DELAY_MS == 3000
GRACE_PERIOD_MS == 5000

Sessions == 1..NumSessions
\* the models of all sessions of one behaviour together
MaxTotalModels == MaxModels
ItemValues == 1..2
Caps == (-1)..MaxCap
StaggerValues == {0, STAGGER_DELAY_MS}

Max(a, b) == IF a >= b THEN a ELSE b
Min(a, b) == IF a <= b THEN a ELSE b

VARIABLES
    activeAbortController,  \* 0 (null), or the session whose AbortController it holds
    aborted,                \* aborted[s]: signal.aborted of session s's AbortController
    hpc,                    \* hpc[s]: where the start handler of request s stands
    notice,                 \* notice[s]: the last ui.notify of the start handler of request s
    tempFiles,              \* tempFiles[s]: the diff and prompt temp files of s exist
    reports,                \* sessions for which pi.sendMessage(report) was called
    sent,                   \* sent[s]: what the report of session s holds
    stopsHandled,           \* stop requests handled so far
    stopNotice,             \* the ui.notify of the last stop request
    rs,                     \* rs[s]: the mapWithConcurrencyLimit call of session s
    cResults,               \* the results array a consolidateFindings call was given
    cGroups,                \* the groups of that call's grouping loop
    processed,              \* the flattened findings the loop has been through
    memberOf,               \* memberOf[i]: the group the i-th flattened finding went to
    consolidated,           \* the list the call returned
    formatted,              \* what formatReport made of the results and that list
    cpc,                    \* where the call stands
    psrc,                   \* what the text given to parseReviewOutput was made of
    ptext,                  \* the text a parseReviewOutput call was given
    pcands,                 \* the candidates of that call
    ptried,                 \* the candidates the loop has been through
    pout,                   \* what the call returned
    ppc,                    \* where the call stands
    now,                    \* the clock of a timed Task Runner run, in ms
    deadline,               \* deadline[w]: when the stagger timer of worker w is due
    startedAt,              \* startedAt[i]: when fn was called for item i, or -1
    dueAt,                  \* dueAt[i]: when the call of fn for item i was due, or -1
    available,              \* what ctx.modelRegistry.getAvailable() returned
    selected,               \* the models array of a getReviewModels call
    spc,                    \* where that call stands
    stdout,                 \* every byte a reviewer process writes to its stdout
    unread,                 \* the bytes of it no data event has delivered yet
    buffer,                 \* runReviewAgent's buffer
    messages,               \* runReviewAgent's messages
    finalText,              \* what getFinalOutput(messages) returned
    stpc                    \* where the invocation stands

\* the variables of the pure functions checked on their own
consVars == <<cResults, cGroups, processed, memberOf, consolidated, formatted, cpc>>
parserVars == <<psrc, ptext, pcands, ptried, pout, ppc>>
clockVars == <<now, deadline, startedAt, dueAt>>
selVars == <<available, selected, spc>>
streamVars == <<stdout, unread, buffer, messages, finalText, stpc>>
pureVars == <<consVars, parserVars, clockVars, selVars, streamVars>>
\* the variables of the orchestrator
orchVars == <<activeAbortController, aborted, hpc, notice, tempFiles, reports, sent,
              stopsHandled, stopNotice, rs>>
vars == <<orchVars, pureVars>>
ctlVars == <<activeAbortController, aborted, hpc, notice, tempFiles, reports, sent,
             stopsHandled, stopNotice, pureVars>>

\* --------------------------------------------------------------- processes
NoProc == [alive |-> FALSE, killed |-> FALSE, sigterm |-> FALSE,
           sigkill |-> FALSE, grace |-> "none", graceMs |-> 0]
\* spawn("pi", args, ...): a running child, no signal sent
SpawnedProc == [alive |-> TRUE, killed |-> FALSE, sigterm |-> FALSE,
                sigkill |-> FALSE, grace |-> "none", graceMs |-> 0]

\* ------------------------------------------------------------ job results
Empty == [kind |-> "empty"]
\* the value a generic job resolves with: it names the item and index it ran on
GenericResult(item, index) == [kind |-> "value", item |-> item, index |-> index]

\* a worker of the pool: its position, the index it claimed, the pending
\* timer's delay and the locals of the job it is awaiting
IdleWorker == [pc |-> "new", cur |-> -1, delay |-> 0, attempt |-> 0,
               exitCode |-> 1, stderr |-> "", proc |-> NoProc]

\* the state of one call before it is made
NoRun == [phase |-> "none", fn |-> "none", n |-> 0, items |-> <<>>,
          concurrency |-> 0, staggerMs |-> 0, limit |-> 0, nextIndex |-> 0,
          wk |-> <<>>, results |-> <<>>, invoked |-> <<>>]

\* ------------------------------------------------- mapWithConcurrencyLimit
\* a pool as large as the input, whatever the cap
LimitIgnoresCap(concurrency, n) == Max(1, n)

\* const limit = Math.max(1, Math.min(concurrency, items.length))
EffectiveLimit(concurrency, n) == Max(1, Min(concurrency, n))

\* a stagger of one staggerMs for every item
SameDelayForAll(current, staggerMs) == staggerMs

\* a variant that waits before no job
NoStagger(current, staggerMs) == 0

\* setTimeout(r, current * staggerMs)
StaggerDelay(current, staggerMs) == current * staggerMs

\* a claim that leaves the cursor where it was
ClaimWithoutAdvance(nextIndex) == nextIndex

\* const current = nextIndex++ : the value nextIndex holds after the claim
NextIndexAfterClaim(nextIndex) == nextIndex + 1

\* results appended in completion order: the first free slot is filled
StoreInCompletionOrder(results, current, val) ==
    LET free == {j \in DOMAIN results : results[j] = Empty}
        k == CHOOSE j \in free : \A m \in free : j <= m
    IN  [results EXCEPT ![k] = val]

\* results[current] = await fn(items[current], current)
StoreResult(results, current, val) == [results EXCEPT ![current] = val]

\* ---------------------------------------------------------- runReviewAgent
\* killProc: proc.kill("SIGTERM") marks the child killed once the signal is
\* delivered, and arms the 5000 ms timer. On a child that has already exited
\* kill() delivers nothing and the timer's callback finds nothing to signal,
\* so no timer is kept for it.
killProc(p) ==
    IF p.alive
    THEN [p EXCEPT !.killed = TRUE, !.sigterm = TRUE, !.grace = "pending",
                   !.graceMs = GRACE_PERIOD_MS]
    ELSE p

\* the timer's callback: if (!proc.killed) proc.kill("SIGKILL")
GraceExpired(p) ==
    IF ~p.killed
    THEN [p EXCEPT !.sigkill = p.alive, !.killed = p.alive, !.grace = "fired"]
    ELSE [p EXCEPT !.grace = "fired"]

\* spawn the reviewer; if (signal.aborted) killProc() else the abort listener
\* is registered (the listener's run is part of the stop handler's step)
runReviewAgent(sig) == IF sig THEN killProc(SpawnedProc) ELSE SpawnedProc

\* ------------------------------------------------------------ findings
\* a finding as parseReviewOutput returns it; an absent suggestion is <<>>
BaseFinding ==
    [file |-> "a.ts", line |-> 10, severity |-> "warning", category |-> "bug",
     title |-> <<"Missing", "null", "check">>,
     description |-> <<"user", "may", "be", "null">>,
     suggestion |-> <<>>]

\* the findings of a reviewer whose output parsed, in a controller run
ReviewerFindings == <<BaseFinding>>

\* ------------------------------------------------------------ the job (fn)
\* a job that never looks at the signal
AbortCheckMissing(sig) == FALSE

\* if (signal.aborted) at the head of the job
AbortCheck(sig) == sig

CancelledResult(model) ==
    [kind |-> "agent", model |-> model, output |-> "null",
     error |-> "Cancelled", exitCode |-> 1]

MaxAttempts == 1 + LOCK_RETRY_ATTEMPTS

\* a retry on any failure, lock marker or not
RetryOnAnyFailure(exitCode, stderr, attempt) ==
    exitCode # 0 /\ attempt < 1 + LOCK_RETRY_ATTEMPTS - 1

\* the retry condition; stderr is "" (empty), "lock" (holds the marker
\* "Lock file is already being held") or "other"
ShouldRetry(exitCode, stderr, attempt) ==
    exitCode # 0 /\ stderr = "lock" /\ attempt < MaxAttempts - 1

\* const delay = LOCK_RETRY_DELAY_MS * attempt (attempt already incremented)
RetryDelay(attempt) == LOCK_RETRY_DELAY_MS * attempt

\* an error text without its fallback
RawStderr(stderr) == stderr

\* error: stderr.slice(0, 200) || `Exit code ${exitCode}`
ErrorText(stderr) == IF stderr # "" THEN stderr ELSE "Exit code"

\* the AgentResult built after the retry loop; parse is what getFinalOutput
\* and parseReviewOutput make of the messages: "ok", "fail" (null) or
\* "throws" (the catch branch)
JobResult(model, exitCode, stderr, parse) ==
    IF exitCode # 0
    THEN [kind |-> "agent", model |-> model, output |-> "null",
          error |-> ErrorText(stderr), exitCode |-> exitCode]
    ELSE IF parse = "throws"
    THEN [kind |-> "agent", model |-> model, output |-> "null",
          error |-> "exception", exitCode |-> 1]
    ELSE IF parse = "ok"
    THEN [kind |-> "agent", model |-> model, output |-> "parsed",
          error |-> "none", exitCode |-> exitCode, findings |-> ReviewerFindings]
    ELSE [kind |-> "agent", model |-> model, output |-> "null",
          error |-> "Failed to parse JSON output", exitCode |-> exitCode]

\* ---------------------------------------------------------- the worker loop
RECURSIVE WorkerLoop(_, _, _)

\* the job resolved with val: the worker stores it and loops
FnReturn(r, w, val, sig) ==
    WorkerLoop([r EXCEPT !.results = StoreResult(@, r.wk[w].cur, val),
                         !.wk[w] = [IdleWorker EXCEPT !.cur = r.wk[w].cur]],
               w, sig)

\* the review job from its head to its first await
ReviewJobStart(r, w, sig) ==
    IF AbortCheck(sig)
    THEN FnReturn(r, w, CancelledResult(r.items[r.wk[w].cur]), sig)
    ELSE [r EXCEPT !.wk[w] = [@ EXCEPT !.pc = "job", !.attempt = 0, !.delay = 0,
                                       !.proc = runReviewAgent(sig)]]

\* fn(items[current], current)
CallFn(r, w, sig) ==
    LET r1 == [r EXCEPT !.invoked[r.wk[w].cur] = @ + 1]
    IN  IF r.fn = "generic"
        THEN [r1 EXCEPT !.wk[w] = [@ EXCEPT !.pc = "job", !.delay = 0]]
        ELSE ReviewJobStart(r1, w, sig)

\* one turn of while (true) of worker w, up to its next await or its return
WorkerLoop(r, w, sig) ==
    LET current == r.nextIndex
        r1 == [r EXCEPT !.nextIndex = NextIndexAfterClaim(@)]
    IN  IF current >= r.n
        THEN [r1 EXCEPT !.wk[w] = [IdleWorker EXCEPT !.pc = "returned"]]
        ELSE IF r.staggerMs > 0 /\ current > 0
        THEN [r1 EXCEPT !.wk[w] = [IdleWorker EXCEPT !.pc = "stagger", !.cur = current,
                                                     !.delay = StaggerDelay(current,
                                                                            r.staggerMs)]]
        ELSE CallFn([r1 EXCEPT !.wk[w] = [IdleWorker EXCEPT !.cur = current]], w, sig)

\* new Array(limit).fill(null).map(async () => ...): each worker runs to its
\* first await before the next one is created
RECURSIVE StartWorkers(_, _, _)
StartWorkers(r, w, sig) ==
    IF w > r.limit THEN r ELSE StartWorkers(WorkerLoop(r, w, sig), w + 1, sig)

\* a run that also resolves as soon as a job has returned the placeholder of
\* a cancelled job
SettleOnCancelled(r) ==
    IF /\ r.phase = "active"
       /\ \/ \A w \in 1..r.limit : r.wk[w].pc = "returned"
          \/ \E i \in 0..(r.n - 1) : r.results[i] = CancelledResult(r.items[i])
    THEN [r EXCEPT !.phase = "resolved"]
    ELSE r

\* await Promise.all(workers); return results
Settle(r) ==
    IF r.phase = "active" /\ \A w \in 1..r.limit : r.wk[w].pc = "returned"
    THEN [r EXCEPT !.phase = "resolved"]
    ELSE r

\* the call mapWithConcurrencyLimit(items, concurrency, fn, staggerMs), up to
\* its first await
mapWithConcurrencyLimit(items, n, concurrency, fn, staggerMs, sig) ==
    IF n = 0
    THEN [NoRun EXCEPT !.phase = "resolved", !.fn = fn,
                       !.concurrency = concurrency, !.staggerMs = staggerMs]
    ELSE LET limit == EffectiveLimit(concurrency, n)
             r0 == [phase |-> "active", fn |-> fn, n |-> n, items |-> items,
                    concurrency |-> concurrency, staggerMs |-> staggerMs,
                    limit |-> limit, nextIndex |-> 0,
                    wk |-> [w \in 1..limit |-> IdleWorker],
                    results |-> [i \in 0..(n - 1) |-> Empty],
                    invoked |-> [i \in 0..(n - 1) |-> 0]]
         IN  Settle(StartWorkers(r0, 1, sig))

\* the attempt's process closed: the retry check, then the result
AttemptEnded(r, w, exitCode, stderr, parse, sig) ==
    IF ShouldRetry(exitCode, stderr, r.wk[w].attempt)
    THEN [r EXCEPT !.wk[w] = [@ EXCEPT !.pc = "backoff", !.attempt = @ + 1,
                                       !.exitCode = exitCode, !.stderr = stderr,
                                       !.delay = RetryDelay(r.wk[w].attempt + 1),
                                       !.proc = NoProc]]
    ELSE FnReturn(r, w, JobResult(r.items[r.wk[w].cur], exitCode, stderr, parse), sig)

\* --------------------------------------------------------------- JSON values
\* A JSON value is a record with its type t: "null", "str" and "num" (with
\* the value v), "arr" (v the sequence of elements), "obj" (the object of a
\* review: findings, summary, score) and "entry" (the object of a finding).
\* A property an object does not have reads as JUndefined. Strings are TLA+
\* strings here; the consolidator reads a text as its sequence of tokens.
JNull == [t |-> "null"]
JUndefined == [t |-> "undefined"]
JStr(s) == [t |-> "str", v |-> s]
JNum(n) == [t |-> "num", v |-> n]
JArr(q) == [t |-> "arr", v |-> q]
NaN == [t |-> "nan"]

\* value.name of a value that is not null
Get(j, name) == IF name \in DOMAIN j THEN j[name] ELSE JUndefined

\* the truthiness of a value: "", 0, null and undefined are falsy
Truthy(j) ==
    CASE j.t = "str" -> j.v # ""
      [] j.t = "num" -> j.v # 0
      [] j.t \in {"null", "undefined"} -> FALSE
      [] OTHER -> TRUE

\* Number(value): a number, or NaN
ToNumber(j) ==
    CASE j.t = "num" -> j
      [] j.t = "null" -> JNum(0)
      [] j.t = "str" ->
            (CASE j.v = "" -> JNum(0)
               [] j.v = "0" -> JNum(0)
               [] j.v = "7" -> JNum(7)
               [] j.v = "15" -> JNum(15)
               [] OTHER -> NaN)
      [] OTHER -> NaN

\* Number(value) || d : NaN and 0 are falsy
NumberOr(j, d) ==
    IF ToNumber(j).t = "nan" \/ ToNumber(j).v = 0 THEN d ELSE ToNumber(j).v

\* String(value) of a string or a number
String(j) == IF j.t = "str" THEN j.v ELSE IF j.t = "num" THEN ToString(j.v) ELSE j.t

\* ----------------------------------------------------------------- the text
\* A text is the sequence of its tokens, each a record with its type t:
\*   "{" "}" "[" "]"      the brackets of JSON (and braces of prose)
\*   "fence"              a code fence; "json" the word json; "ws" whitespace
\*   "word"               a run of prose without braces, fences and quotes
\*   "quoted"             the ten characters "findings" outside of a key
\*   "findings:"          the key "findings" with its colon
\*   "summary:" "score:"  a key with its colon and its value v
\*   "fields"             the properties of a finding object, v
\*   "s{" "s}" "sfence"   a brace or a fence inside the last string of "fields"
\*   "scalar"             a value v that is null, a number or a string
Tok(type) == [t |-> type]
IsOpenBrace(tok) == tok.t \in {"{", "s{"}
IsCloseBrace(tok) == tok.t \in {"}", "s}"}
IsFence(tok) == tok.t \in {"fence", "sfence"}
HasFindingsLiteral(tok) == tok.t \in {"findings:", "quoted"}
InString(tok) == tok.t \in {"s{", "s}", "sfence"}

\* JSON.stringify of a value
RECURSIVE Serialize(_)
SerializeAll(q) ==
    LET RECURSIVE Go(_)
        Go(k) == IF k > Len(q) THEN <<>> ELSE Serialize(q[k]) \o Go(k + 1)
    IN  Go(1)
Serialize(j) ==
    CASE j.t = "obj" ->
            <<Tok("{")>>
            \o (IF j.findings.t = "undefined" THEN <<>>
                ELSE <<Tok("findings:")>> \o Serialize(j.findings))
            \o (IF j.summary.t = "undefined" THEN <<>>
                ELSE <<[t |-> "summary:", v |-> j.summary]>>)
            \o (IF j.score.t = "undefined" THEN <<>>
                ELSE <<[t |-> "score:", v |-> j.score]>>)
            \o <<Tok("}")>>
      [] j.t = "entry" ->
            <<Tok("{"), [t |-> "fields", v |-> [j EXCEPT !.special = <<>>]]>>
            \o [k \in 1..Len(j.special) |-> Tok(j.special[k])]
            \o <<Tok("}")>>
      [] j.t = "arr" -> <<Tok("[")>> \o SerializeAll(j.v) \o <<Tok("]")>>
      [] OTHER -> <<[t |-> "scalar", v |-> j]>>

\* JSON.parse: a value and the tokens left behind it, or a SyntaxError
SyntaxError == [ok |-> FALSE]
Parsed(val, rest) == [ok |-> TRUE, val |-> val, rest |-> rest]

RECURSIVE SkipWs(_)
SkipWs(toks) ==
    IF toks # <<>> /\ Head(toks).t = "ws" THEN SkipWs(Tail(toks)) ELSE toks

\* the string characters that follow the properties of a finding
RECURSIVE TakeInString(_)
TakeInString(toks) ==
    IF toks # <<>> /\ InString(Head(toks))
    THEN <<Head(toks).t>> \o TakeInString(Tail(toks))
    ELSE <<>>

RECURSIVE ParseValue(_)
RECURSIVE ParseElements(_, _)
RECURSIVE ParseMembers(_, _)

\* the elements of an array, up to its "]"
ParseElements(toks, acc) ==
    LET rest == SkipWs(toks)
    IN  IF rest = <<>> THEN SyntaxError
        ELSE IF Head(rest).t = "]" THEN Parsed(JArr(acc), Tail(rest))
        ELSE LET e == ParseValue(rest)
             IN  IF e.ok THEN ParseElements(e.rest, Append(acc, e.val)) ELSE SyntaxError

\* the members of a review object, up to its "}"
ParseMembers(toks, obj) ==
    LET rest == SkipWs(toks)
    IN  IF rest = <<>> THEN SyntaxError
        ELSE IF Head(rest).t = "}" THEN Parsed(obj, Tail(rest))
        ELSE IF Head(rest).t = "findings:"
        THEN LET f == ParseValue(Tail(rest))
             IN  IF f.ok THEN ParseMembers(f.rest, [obj EXCEPT !.findings = f.val])
                 ELSE SyntaxError
        ELSE IF Head(rest).t = "summary:"
        THEN ParseMembers(Tail(rest), [obj EXCEPT !.summary = Head(rest).v])
        ELSE IF Head(rest).t = "score:"
        THEN ParseMembers(Tail(rest), [obj EXCEPT !.score = Head(rest).v])
        ELSE SyntaxError

EmptyObject ==
    [t |-> "obj", findings |-> JUndefined, summary |-> JUndefined, score |-> JUndefined]

ParseValue(toks) ==
    LET rest == SkipWs(toks)
    IN  IF rest = <<>> THEN SyntaxError
        ELSE IF Head(rest).t = "scalar" THEN Parsed(Head(rest).v, Tail(rest))
        ELSE IF Head(rest).t = "[" THEN ParseElements(Tail(rest), <<>>)
        ELSE IF Head(rest).t = "{"
        THEN LET body == SkipWs(Tail(rest))
             IN  IF body # <<>> /\ Head(body).t = "fields"
                 THEN LET special == TakeInString(Tail(body))
                          after == SkipWs(SubSeq(body, 2 + Len(special), Len(body)))
                      IN  IF after # <<>> /\ Head(after).t = "}"
                          THEN Parsed([Head(body).v EXCEPT !.special = special],
                                      Tail(after))
                          ELSE SyntaxError
                 ELSE ParseMembers(body, EmptyObject)
        ELSE SyntaxError

\* JSON.parse(candidate): the whole candidate must be one value
JSONparse(toks) ==
    LET p == ParseValue(toks)
    IN  IF p.ok /\ SkipWs(p.rest) = <<>> THEN p ELSE SyntaxError

\* ---------------------------------------------------------------- the parser
\* text.trim()
RECURSIVE TrimEnd(_)
TrimEnd(toks) ==
    IF toks # <<>> /\ toks[Len(toks)].t = "ws"
    THEN TrimEnd(SubSeq(toks, 1, Len(toks) - 1))
    ELSE toks
Trim(toks) == TrimEnd(SkipWs(toks))

\* the first index from `from` on whose token satisfies Is, or 0
FirstIndex(toks, from, Is(_)) ==
    IF \E i \in from..Len(toks) : Is(toks[i])
    THEN CHOOSE i \in from..Len(toks) : Is(toks[i]) /\ \A k \in from..(i - 1) : ~Is(toks[k])
    ELSE 0
\* the last index up to `upto` whose token satisfies Is, or 0
LastIndex(toks, upto, Is(_)) ==
    IF \E i \in 1..upto : Is(toks[i])
    THEN CHOOSE i \in 1..upto : Is(toks[i]) /\ \A k \in (i + 1)..upto : ~Is(toks[k])
    ELSE 0

\* Strategy 1: every match of the fence pattern from index `from` on: a fence,
\* an optional json, whitespace, and the shortest text up to the next fence
RECURSIVE FenceCandidates(_, _)
FenceCandidates(toks, from) ==
    LET open == FirstIndex(toks, from, IsFence)
        tagged == open # 0 /\ open < Len(toks) /\ toks[open + 1].t = "json"
        start == IF tagged THEN open + 2 ELSE open + 1
        close == IF open = 0 THEN 0 ELSE FirstIndex(toks, start, IsFence)
    IN  IF open = 0 \/ close = 0 THEN <<>>
        ELSE <<Trim(SubSeq(toks, start, close - 1))>> \o FenceCandidates(toks, close + 1)

\* the index at which the depth of braces, counted from braceStart, is back at 0
RECURSIVE MatchingBrace(_, _, _)
MatchingBrace(toks, i, depth) ==
    IF i > Len(toks) THEN 0
    ELSE LET d == IF IsOpenBrace(toks[i]) THEN depth + 1
                  ELSE IF IsCloseBrace(toks[i]) THEN depth - 1
                  ELSE depth
         IN  IF d = 0 THEN i ELSE MatchingBrace(toks, i + 1, d)

\* Strategy 2: from the last "{" before the first "findings" to its match
BalancedCandidate(toks) ==
    LET findingsIdx == FirstIndex(toks, 1, HasFindingsLiteral)
        braceStart == IF findingsIdx = 0 THEN 0 ELSE LastIndex(toks, findingsIdx, IsOpenBrace)
        end == IF braceStart = 0 THEN 0 ELSE MatchingBrace(toks, braceStart, 0)
    IN  IF end = 0 THEN <<>> ELSE <<SubSeq(toks, braceStart, end)>>

\* no candidate
NoOuterBraces(toks) == <<>>

\* Strategy 3: from the first "{" to the last "}"
OuterBraces(toks) ==
    LET jsonStart == FirstIndex(toks, 1, IsOpenBrace)
        jsonEnd == LastIndex(toks, Len(toks), IsCloseBrace)
    IN  IF jsonStart # 0 /\ jsonEnd > jsonStart
        THEN <<SubSeq(toks, jsonStart, jsonEnd)>>
        ELSE <<>>

\* the candidates in the order they are tried; Strategy 4 is the text itself
Candidates(text) ==
    LET trimmed == Trim(text)
    IN  FenceCandidates(trimmed, 1) \o BalancedCandidate(trimmed)
        \o OuterBraces(trimmed) \o <<trimmed>>

\* ["critical", "warning", "suggestion"].includes(f.severity) ? f.severity : "suggestion"
NormalizeSeverity(j) ==
    IF j.t = "str" /\ j.v \in {"critical", "warning", "suggestion"} THEN j.v ELSE "suggestion"

\* Math.min(10, Math.max(1, Number(parsed.score) || 5))
ClampScore(j) == Min(10, Max(1, NumberOr(j, 5)))

\* the finding pushed for an entry f that has a file and a title; an absent
\* suggestion is ""; special holds the braces and fences of its strings
NormalizeFinding(f) ==
    [file |-> String(Get(f, "file")),
     line |-> NumberOr(Get(f, "line"), 0),
     severity |-> NormalizeSeverity(Get(f, "severity")),
     category |-> IF Truthy(Get(f, "category")) THEN String(Get(f, "category")) ELSE "other",
     title |-> String(Get(f, "title")),
     description |-> IF Truthy(Get(f, "description"))
                     THEN String(Get(f, "description")) ELSE "",
     suggestion |-> IF Truthy(Get(f, "suggestion"))
                    THEN String(Get(f, "suggestion")) ELSE "",
     special |-> IF f.t = "entry" THEN f.special ELSE <<>>]

\* if (!f.file || !f.title) continue
HasFileAndTitle(f) == Truthy(Get(f, "file")) /\ Truthy(Get(f, "title"))

NullOutput == [kind |-> "null"]
NoOutput == [kind |-> "none"]
\* no document, and the source of no text
NoDoc == [t |-> "none"]
NoSource == [doc |-> NoDoc, mode |-> "none", before |-> <<>>, after |-> <<>>]
Continue == [kind |-> "continue"]
Throw == [kind |-> "throw"]

\* the body of the try block for one candidate: what it returns, a continue,
\* or an exception (the SyntaxError of JSON.parse, the TypeError of reading a
\* property of null)
ProcessCandidate(candidate) ==
    LET p == JSONparse(candidate)
    IN  IF ~p.ok THEN Throw
        ELSE IF p.val.t = "null" THEN Throw
        ELSE IF ~Truthy(Get(p.val, "findings")) \/ Get(p.val, "findings").t # "arr"
        THEN Continue
        ELSE LET entries == p.val.findings.v
             IN  IF \E k \in DOMAIN entries : entries[k].t = "null" THEN Throw
                 ELSE LET kept == SelectSeq(entries, HasFileAndTitle)
                      IN  [kind |-> "return",
                           val |-> [kind |-> "output",
                                    findings |-> [k \in 1..Len(kept) |->
                                                     NormalizeFinding(kept[k])],
                                    summary |-> IF Truthy(Get(p.val, "summary"))
                                                THEN String(Get(p.val, "summary")) ELSE "",
                                    score |-> ClampScore(Get(p.val, "score"))]]

\* a loop body without its catch clause
Uncaught(outcome) == outcome

\* try { ... } catch { continue; }
TryCatch(outcome) == IF outcome.kind = "throw" THEN Continue ELSE outcome

\* for (const candidate of candidates) from the k-th on, then return null
RECURSIVE TryFrom(_, _)
TryFrom(candidates, k) ==
    IF k > Len(candidates) THEN NullOutput
    ELSE LET outcome == TryCatch(ProcessCandidate(candidates[k]))
         IN  IF outcome.kind = "return" THEN outcome.val
             ELSE IF outcome.kind = "throw" THEN [kind |-> "threw"]
             ELSE TryFrom(candidates, k + 1)

parseReviewOutput(text) == TryFrom(Candidates(text), 1)

\* ---------------------------------------------------------- the consolidator
\* SEVERITY_WEIGHT: critical 3, warning 2, suggestion 1
SEVERITY_WEIGHT == [critical |-> 3, warning |-> 2, suggestion |-> 1]
Severities == {"critical", "warning", "suggestion"}

\* Math.abs(a.line - b.line) > 15
LINE_WINDOW == 15
\* SIMILARITY_THRESHOLD = 0.3, kept as the fraction 3 / 10
SIMILARITY_NUM == 3
SIMILARITY_DEN == 10

STOP_WORDS ==
    {"the", "a", "an", "is", "are", "was", "were", "be", "been", "being",
     "have", "has", "had", "do", "does", "did", "will", "would", "could",
     "should", "may", "might", "can", "shall", "to", "of", "in", "for",
     "on", "with", "at", "by", "from", "as", "into", "through", "during",
     "before", "after", "above", "below", "between", "under", "again",
     "further", "then", "once", "here", "there", "when", "where", "why",
     "how", "all", "each", "every", "both", "few", "more", "most",
     "other", "some", "such", "no", "nor", "not", "only", "own", "same",
     "so", "than", "too", "very", "just", "because", "but", "and", "or",
     "if", "while", "that", "this", "these", "those", "it", "its",
     "also", "which", "about", "using", "used", "use", "like"}

\* A text is the sequence of its whitespace-separated tokens.
\* text.toLowerCase().replace(/[^a-z0-9\s]/g, " ").split(/\s+/) on one token:
\* the lower-case alphanumeric words it leaves
LowerWords(tok) ==
    CASE tok = "Missing" -> <<"missing">>
      [] tok = "Null" -> <<"null">>
      [] tok = "Why" -> <<"why">>
      [] tok = "Unused" -> <<"unused">>
      [] tok = "Rename" -> <<"rename">>
      [] tok = "check." -> <<"check">>
      [] tok = "here;" -> <<"here">>
      [] tok = "so?" -> <<"so">>
      [] tok = "N+1" -> <<"n", "1">>
      [] tok = "user.id" -> <<"user", "id">>
      [] OTHER -> <<tok>>

\* the significant words of a text: longer than 2 characters, no stop word
extractSignificantWords(text) ==
    {w \in UNION {{LowerWords(text[i])[j] : j \in DOMAIN LowerWords(text[i])} :
                     i \in DOMAIN text} :
        Len(w) > 2 /\ w \notin STOP_WORDS}

\* string.length of a text: its tokens and the single spaces between them
RECURSIVE TextLength(_)
TextLength(text) ==
    IF text = <<>> THEN 0
    ELSE IF Len(text) = 1 THEN Len(text[1])
    ELSE Len(text[1]) + 1 + TextLength(Tail(text))

Abs(x) == IF x < 0 THEN -x ELSE x

\* a similarity is the fraction <<overlap, minSize>>; 0 is <<0, 1>>
ZeroSimilarity == <<0, 1>>
\* sim > bestScore
Greater(x, y) == x[1] * y[2] > y[1] * x[2]

\* a line check that lets every distance pass
WindowIgnored(a, b) == TRUE

\* the lines are within 15 of each other
WithinWindow(a, b) == ~(Abs(a - b) > LINE_WINDOW)

\* findingSimilarity(a, b)
findingSimilarity(a, b) ==
    IF a.file # b.file THEN ZeroSimilarity
    ELSE IF ~WithinWindow(a.line, b.line) THEN ZeroSimilarity
    ELSE LET aWords == extractSignificantWords(a.title \o a.description)
             bWords == extractSignificantWords(b.title \o b.description)
         IN  IF aWords = {} \/ bWords = {} THEN ZeroSimilarity
             ELSE <<Cardinality(aWords \cap bWords),
                    Min(Cardinality(aWords), Cardinality(bWords))>>

\* a threshold no similarity reaches: the score is compared with 1.0, strictly
AboveOne(x) == x[1] > x[2]

\* a threshold that a similarity must exceed
AboveThreshold(x) == x[1] * SIMILARITY_DEN > SIMILARITY_NUM * x[2]

\* bestScore >= SIMILARITY_THRESHOLD
AtLeastThreshold(x) == x[1] * SIMILARITY_DEN >= SIMILARITY_NUM * x[2]

\* for (const result of results) { if (!result.output) continue; ... }: every
\* finding of every result that has an output, with its agent's display name
RECURSIVE Flatten(_)
Flatten(results) ==
    IF results = <<>> THEN <<>>
    ELSE LET result == Head(results)
         IN  IF result.output = "null" THEN Flatten(Tail(results))
             ELSE [k \in 1..Len(result.findings) |->
                      [finding |-> result.findings[k], agent |-> result.model]]
                  \o Flatten(Tail(results))

\* the loop over the groups: <<index of bestGroup (0 for null), bestScore>>
RECURSIVE BestGroup(_, _, _, _)
BestGroup(groups, finding, k, best) ==
    IF k > Len(groups) THEN best
    ELSE LET sim == findingSimilarity(finding, groups[k])
         IN  IF Greater(sim, best[2])
             THEN BestGroup(groups, finding, k + 1, <<k, sim>>)
             ELSE BestGroup(groups, finding, k + 1, best)

\* a score that counts no agents
ScoreIgnoresAgents(count, severity) == SEVERITY_WEIGHT[severity]

\* agents.length * SEVERITY_WEIGHT[severity]
ConsensusScore(count, severity) == count * SEVERITY_WEIGHT[severity]

\* a push that does not look for the name in the list
PushAlways(agents, agent) == Append(agents, agent)

\* if (!bestGroup.agents.includes(agent)) bestGroup.agents.push(agent)
PushAgent(agents, agent) ==
    IF \E k \in DOMAIN agents : agents[k] = agent THEN agents ELSE Append(agents, agent)

\* a severity that follows the latest finding
LatestSeverity(groupSeverity, findingSeverity) == findingSeverity

\* if (SEVERITY_WEIGHT[finding.severity] > SEVERITY_WEIGHT[bestGroup.severity])
\*     bestGroup.severity = finding.severity
UpgradedSeverity(groupSeverity, findingSeverity) ==
    IF SEVERITY_WEIGHT[findingSeverity] > SEVERITY_WEIGHT[groupSeverity]
    THEN findingSeverity ELSE groupSeverity

\* a description that follows the latest finding
LatestDescription(findingDescription, groupDescription) == TRUE

\* finding.description.length > bestGroup.description.length
MoreDetailed(findingDescription, groupDescription) ==
    TextLength(findingDescription) > TextLength(groupDescription)

\* the merge of a finding into a group; longer says whether the finding's
\* description and title replace the group's
MergedWith(group, finding, agent, longer) ==
    LET agents == PushAgent(group.agents, agent)
        severity == UpgradedSeverity(group.severity, finding.severity)
        newSuggestion ==
            finding.suggestion # <<>>
            /\ (group.suggestion = <<>>
                \/ TextLength(finding.suggestion) > TextLength(group.suggestion))
    IN  [group EXCEPT !.agents = agents,
                      !.severity = severity,
                      !.description = IF longer THEN finding.description ELSE @,
                      !.title = IF longer THEN finding.title ELSE @,
                      !.suggestion = IF newSuggestion THEN finding.suggestion ELSE @,
                      !.consensusScore = ConsensusScore(Len(agents), severity)]

\* a merge that keeps the title and description of the group's first finding
MergeKeepingText(group, finding, agent) == MergedWith(group, finding, agent, FALSE)

\* a merge that moves the group to the line of the finding
MergeMovingLine(group, finding, agent) ==
    [MergedWith(group, finding, agent,
                MoreDetailed(finding.description, group.description))
        EXCEPT !.line = finding.line]

\* the merge of a finding into bestGroup
MergeInto(group, finding, agent) ==
    MergedWith(group, finding, agent, MoreDetailed(finding.description, group.description))

\* groups.push({...}): a new group of one finding
NewGroup(finding, agent) ==
    [file |-> finding.file, line |-> finding.line, severity |-> finding.severity,
     category |-> finding.category, title |-> finding.title,
     description |-> finding.description, suggestion |-> finding.suggestion,
     agents |-> <<agent>>, consensusScore |-> SEVERITY_WEIGHT[finding.severity]]

\* the group an entry goes to: the index of the group it merges into, or the
\* index of the group it starts
TargetGroup(groups, e) ==
    LET best == BestGroup(groups, e.finding, 1, <<0, ZeroSimilarity>>)
    IN  IF best[1] # 0 /\ AtLeastThreshold(best[2]) THEN best[1] ELSE Len(groups) + 1

\* one pass of the grouping loop
GroupStep(groups, e) ==
    LET k == TargetGroup(groups, e)
    IN  IF k <= Len(groups)
        THEN [groups EXCEPT ![k] = MergeInto(@, e.finding, e.agent)]
        ELSE Append(groups, NewGroup(e.finding, e.agent))

RECURSIVE GroupAll(_, _)
GroupAll(groups, all) ==
    IF all = <<>> THEN groups ELSE GroupAll(GroupStep(groups, Head(all)), Tail(all))

\* an order by severity alone
SeverityFirst(a, b) == SEVERITY_WEIGHT[a.severity] > SEVERITY_WEIGHT[b.severity]

\* the comparator is negative: a sorts before b
SortsBefore(a, b) ==
    IF b.consensusScore # a.consensusScore
    THEN b.consensusScore - a.consensusScore < 0
    ELSE SEVERITY_WEIGHT[b.severity] - SEVERITY_WEIGHT[a.severity] < 0

\* Array.prototype.sort is stable: g goes behind every group it does not
\* sort before
RECURSIVE InsertSorted(_, _)
InsertSorted(sorted, g) ==
    IF sorted = <<>> THEN <<g>>
    ELSE IF SortsBefore(g, Head(sorted)) THEN <<g>> \o sorted
    ELSE <<Head(sorted)>> \o InsertSorted(Tail(sorted), g)

\* a list returned in the order of creation
CreationOrder(groups) == groups

RECURSIVE SortGroups(_)
SortGroups(groups) ==
    IF groups = <<>> THEN <<>>
    ELSE InsertSorted(SortGroups(SubSeq(groups, 1, Len(groups) - 1)), groups[Len(groups)])

\* consolidateFindings: flatten, group, sort; the result of each stage is
\* one value (all, groups) that the next stage reads
consolidateFindings(results) ==
    CHOOSE sorted \in
        UNION {{SortGroups(groups) : groups \in {GroupAll(<<>>, all)}} :
                  all \in {Flatten(results)}} : TRUE

\* ------------------------------------------------------------ the formatter
\* formatFinding: the consensus label and the group's location and texts
formatFinding(f, totalAgents) ==
    [consensus |-> <<Len(f.agents), totalAgents>>, file |-> f.file, line |-> f.line,
     severity |-> f.severity, title |-> f.title, description |-> f.description,
     suggestion |-> f.suggestion]

\* a failure note that names the first failed agent only
FirstFailedOnly(results) ==
    LET failed == SelectSeq(results, LAMBDA r : r.output = "null")
    IN  IF failed = <<>> THEN <<>>
        ELSE <<[name |-> failed[1].model, error |-> failed[1].error]>>

\* failed.map(r => `${r.displayName} (${r.error || "unknown error"})`)
FailedNote(results) ==
    LET failed == SelectSeq(results, LAMBDA r : r.output = "null")
    IN  [k \in 1..Len(failed) |->
            [name |-> failed[k].model,
             error |-> IF failed[k].error \in {"none", ""}
                       THEN "unknown error" ELSE failed[k].error]]

\* formatReport: the agents used, the failure note, the no-issues line and
\* the three severity blocks in their printed order
formatReport(results, findings, totalAgents) ==
    LET successfulAgents == SelectSeq(results, LAMBDA r : r.output # "null")
        critical == SelectSeq(findings, LAMBDA f : f.severity = "critical")
        warnings == SelectSeq(findings, LAMBDA f : f.severity = "warning")
        suggestions == SelectSeq(findings, LAMBDA f : f.severity = "suggestion")
        blocks == critical \o warnings \o suggestions
    IN  [kind |-> "report",
         agents |-> [k \in 1..Len(successfulAgents) |-> successfulAgents[k].model],
         failed |-> FailedNote(results),
         noIssues |-> Len(findings) = 0,
         body |-> [k \in 1..Len(blocks) |-> formatFinding(blocks[k], totalAgents)]]

NoReport == [kind |-> "none"]

\* the results of a run as the array the handler receives
ResultList(results, n) == [k \in 1..n |-> results[k - 1]]

\* ---------------------------------------------------------- getReviewModels
PRIMARY == "anthropic"
CLAUDE_PREFERRED ==
    <<"claude-opus-4-6", "claude-sonnet-4-5-20250929", "claude-haiku-4-5-20251001">>
\* the providers of EXTRA_PROVIDER_PREFERRED with their default model, in the
\* order of the Map
EXTRA_PROVIDER_PREFERRED ==
    << <<"openai", "gpt-5.1-codex">>, <<"openai-codex", "gpt-5.3-codex">>,
       <<"google", "gemini-2.5-pro">>, <<"google-gemini-cli", "gemini-2.5-pro">>,
       <<"google-antigravity", "gemini-3-pro-high">>,
       <<"google-vertex", "gemini-3-pro-preview">>,
       <<"azure-openai-responses", "gpt-5.2">>, <<"github-copilot", "gpt-4o">>,
       <<"openrouter", "openai/gpt-5.1-codex">>, <<"xai", "grok-4-fast-non-reasoning">>,
       <<"groq", "openai/gpt-oss-120b">>, <<"mistral", "devstral-medium-latest">>,
       <<"deepseek", "deepseek-chat">>, <<"cerebras", "zai-glm-4.6">>,
       <<"huggingface", "moonshotai/Kimi-K2.5">> >>
\* if (models.length >= 3) break
PREFERRED_LIMIT == 3
\* claudeModels.slice(0, 2)
FALLBACK_COUNT == 2

\* a model of the registry: its provider, id and name ("" for none)
Model(provider, id, name) == [provider |-> provider, id |-> id, name |-> name]

\* { provider, modelId, displayName: m.name || m.id }
Selection(m) ==
    [provider |-> m.provider, modelId |-> m.id,
     displayName |-> IF m.name # "" THEN m.name ELSE m.id]

\* array.find(m => m.id === id): the index of the first such model, or 0
FindId(models, id) ==
    IF \E k \in DOMAIN models : models[k].id = id
    THEN CHOOSE k \in DOMAIN models :
            models[k].id = id /\ \A j \in 1..(k - 1) : models[j].id # id
    ELSE 0

\* available.filter(m => m.provider === provider)
OfProvider(models, provider) == SelectSeq(models, LAMBDA m : m.provider = provider)

\* for (const preferredId of CLAUDE_PREFERRED) from the k-th id on
RECURSIVE PreferredLoop(_, _, _)
PreferredLoop(claudeModels, k, models) ==
    IF k > Len(CLAUDE_PREFERRED) THEN models
    ELSE LET found == FindId(claudeModels, CLAUDE_PREFERRED[k])
             pushed == IF found # 0 THEN Append(models, Selection(claudeModels[found]))
                       ELSE models
         IN  IF Len(pushed) >= PREFERRED_LIMIT THEN pushed
             ELSE PreferredLoop(claudeModels, k + 1, pushed)

\* a fallback that takes every model of the primary provider
FallbackTakesAll(claudeModels, models) ==
    IF Len(models) = 0
    THEN [k \in 1..Len(claudeModels) |-> Selection(claudeModels[k])]
    ELSE models

\* if (models.length === 0) for (const m of claudeModels.slice(0, 2)) ...
Fallback(claudeModels, models) ==
    IF Len(models) = 0
    THEN [k \in 1..Min(FALLBACK_COUNT, Len(claudeModels)) |-> Selection(claudeModels[k])]
    ELSE models

\* for (const [provider, defaultModelId] of EXTRA_PROVIDER_PREFERRED) from the
\* k-th entry on
RECURSIVE ExtrasLoop(_, _, _)
ExtrasLoop(avail, k, models) ==
    IF k > Len(EXTRA_PROVIDER_PREFERRED) THEN models
    ELSE LET providerModels == OfProvider(avail, EXTRA_PROVIDER_PREFERRED[k][1])
             found == FindId(providerModels, EXTRA_PROVIDER_PREFERRED[k][2])
             best == IF found # 0 THEN providerModels[found] ELSE providerModels[1]
         IN  IF Len(providerModels) > 0
             THEN ExtrasLoop(avail, k + 1, Append(models, Selection(best)))
             ELSE ExtrasLoop(avail, k + 1, models)

getReviewModels(avail) ==
    ExtrasLoop(avail, 1,
               Fallback(OfProvider(avail, PRIMARY),
                        PreferredLoop(OfProvider(avail, PRIMARY), 1, <<>>)))

\* a check that lets an empty list pass
NeverEmpty(reviewModels) == FALSE

\* if (reviewModels.length === 0)
NoModelsAvailable(reviewModels) == Len(reviewModels) = 0

\* ------------------------------------------------------ the start handler
\* a handler that reports whatever the signal says
ReportAlways(sig) == FALSE

\* if (signal.aborted) after the run resolved: no report is built
SuppressReport(sig) == sig

\* cleanup placed after the try block instead of in its finally clause
CleanupOnSuccessOnly(threw) == ~threw

\* try { ... } finally { cleanup }: the cleanup runs on a return, on the
\* normal end and on an exception alike
FinallyRuns(threw) == TRUE

\* cleanupTempFile: unlinkSync(filePath), rmdirSync(dir); what is left of a
\* file that existed
cleanupTempFile(exists) == FALSE

\* the handler from the run's resolution (its results are rs'[s].results) to
\* its end: the cancelled notice, or the report, or an exception of a host
\* call made while the report is delivered (pi.sendMessage); then the
\* finally block
HandlerFinish(s, threw) ==
    /\ IF SuppressReport(aborted[s])
       THEN /\ hpc' = [hpc EXCEPT ![s] = "done"]
            /\ notice' = [notice EXCEPT ![s] = "Review was cancelled."]
            /\ UNCHANGED <<reports, sent>>
       ELSE IF threw
       THEN /\ hpc' = [hpc EXCEPT ![s] = "threw"]
            /\ notice' = [notice EXCEPT ![s] = "Review complete!"]
            /\ UNCHANGED <<reports, sent>>
       ELSE /\ hpc' = [hpc EXCEPT ![s] = "done"]
            /\ notice' = [notice EXCEPT ![s] = "Review complete!"]
            /\ reports' = reports \cup {s}
            /\ \E results \in {ResultList(rs'[s].results, rs'[s].n)} :
                  \E findings \in {consolidateFindings(results)} :
                     sent' = [sent EXCEPT ![s] =
                                 formatReport(results, findings, rs'[s].n)]
    /\ IF FinallyRuns(threw)
       THEN /\ activeAbortController' = 0
            /\ tempFiles' = [tempFiles EXCEPT ![s] = cleanupTempFile(@)]
       ELSE UNCHANGED <<activeAbortController, tempFiles>>
    /\ UNCHANGED <<aborted, stopsHandled, stopNotice, pureVars>>

\* the run of session s moves to r1; when that resolves the controller's
\* run, the handler's continuation follows in the same task
Advance(s, r1) ==
    LET r2 == Settle(r1)
    IN  /\ rs' = [rs EXCEPT ![s] = r2]
        /\ IF r2.fn = "review" /\ r2.phase = "resolved"
           THEN \E threw \in BOOLEAN : HandlerFinish(s, threw)
           ELSE UNCHANGED ctlVars

\* the single-flight guard: if (activeAbortController)
GuardRejects == activeAbortController # 0

\* the start command arrives: the guard, then the first await of input
\* resolution. Requests are numbered in their order of arrival.
StartRequest(s) ==
    /\ hpc[s] = "idle"
    /\ \A t \in Sessions : t < s => hpc[t] # "idle"
    /\ IF GuardRejects
       THEN /\ hpc' = [hpc EXCEPT ![s] = "done"]
            /\ notice' = [notice EXCEPT ![s] = "A review is already in progress."]
       ELSE /\ hpc' = [hpc EXCEPT ![s] = "resolving"]
            /\ notice' = notice
    /\ UNCHANGED <<activeAbortController, aborted, tempFiles, reports, sent,
                   stopsHandled, stopNotice, rs, pureVars>>

\* input resolution ends without a diff: an error of the fetch, no changes,
\* or the user cancelled a prompt
InputFails(s) ==
    /\ hpc[s] = "resolving"
    /\ hpc' = [hpc EXCEPT ![s] = "done"]
    /\ notice' = [notice EXCEPT ![s] = "Review cancelled."]
    /\ UNCHANGED <<activeAbortController, aborted, tempFiles, reports, sent,
                   stopsHandled, stopNotice, rs, pureVars>>

\* reviewModels.length === 0
NoModels(s) ==
    /\ hpc[s] = "resolving"
    /\ hpc' = [hpc EXCEPT ![s] = "done"]
    /\ notice' = [notice EXCEPT ![s] = "No AI models available."]
    /\ UNCHANGED <<activeAbortController, aborted, tempFiles, reports, sent,
                   stopsHandled, stopNotice, rs, pureVars>>

\* the models selected so far by all sessions (the model explores behaviours
\* with at most MaxTotalModels of them)
ModelsInUse ==
    LET RECURSIVE Sum(_)
        Sum(s) == IF s = 0 THEN 0 ELSE rs[s].n + Sum(s - 1)
    IN  Sum(NumSessions)

\* input resolved and n models selected: the temp files, the new
\* AbortController, and the call of mapWithConcurrencyLimit up to its await
StartRun(s, n) ==
    /\ hpc[s] = "resolving"
    /\ hpc' = [hpc EXCEPT ![s] = "running"]
    /\ notice' = [notice EXCEPT ![s] = "Starting review"]
    /\ tempFiles' = [tempFiles EXCEPT ![s] = TRUE]
    /\ activeAbortController' = s
    /\ aborted' = [aborted EXCEPT ![s] = FALSE]
    /\ rs' = [rs EXCEPT ![s] = mapWithConcurrencyLimit([i \in 0..(n - 1) |-> i + 1], n,
                                        MAX_CONCURRENCY, "review",
                                        STAGGER_DELAY_MS, FALSE)]
    /\ UNCHANGED <<reports, sent, stopsHandled, stopNotice, pureVars>>

\* the same for a session that selected n models, n > 0
BeginReview(s, n) ==
    /\ ModelsInUse + n <= MaxTotalModels
    /\ StartRun(s, n)

\* ------------------------------------------------------- timers and events
\* the stagger timer of worker w fires: the job is called
StaggerDone(s, w) ==
    /\ rs[s].phase = "active"
    /\ w \in 1..rs[s].limit
    /\ rs[s].wk[w].pc = "stagger"
    /\ Advance(s, CallFn(rs[s], w, aborted[s]))

\* the reviewer process of worker w closes (or fails to spawn)
ProcClose(s, w, exitCode, stderr, parse) ==
    /\ rs[s].phase = "active" /\ rs[s].fn = "review"
    /\ w \in 1..rs[s].limit
    /\ rs[s].wk[w].pc = "job"
    /\ rs[s].wk[w].proc.alive
    /\ Advance(s, AttemptEnded(rs[s], w, exitCode, stderr, parse, aborted[s]))

\* the retry timer of worker w fires: the next attempt is spawned
BackoffDone(s, w) ==
    /\ rs[s].phase = "active"
    /\ w \in 1..rs[s].limit
    /\ rs[s].wk[w].pc = "backoff"
    /\ rs' = [rs EXCEPT ![s].wk[w] = [@ EXCEPT !.pc = "job", !.delay = 0,
                                              !.proc = runReviewAgent(aborted[s])]]
    /\ UNCHANGED ctlVars

\* the 5000 ms timer armed by killProc fires
GraceTimer(s, w) ==
    /\ rs[s].phase = "active"
    /\ w \in 1..rs[s].limit
    /\ rs[s].wk[w].proc.grace = "pending"
    /\ rs' = [rs EXCEPT ![s].wk[w].proc = GraceExpired(@)]
    /\ UNCHANGED ctlVars

\* a generic job resolves with its value
GenericJobResolve(s, w) ==
    /\ rs[s].phase = "active" /\ rs[s].fn = "generic"
    /\ w \in 1..rs[s].limit
    /\ rs[s].wk[w].pc = "job"
    /\ Advance(s, FnReturn(rs[s], w,
                           GenericResult(rs[s].items[rs[s].wk[w].cur], rs[s].wk[w].cur),
                           FALSE))

\* -------------------------------------------------------- the stop handler
\* abort(): the signal fires and the killProc listeners of the session's
\* running reviewers run
AbortRun(r) ==
    [r EXCEPT !.wk = [w \in 1..r.limit |-> [r.wk[w] EXCEPT !.proc = killProc(@)]]]

StopRequest ==
    /\ stopsHandled < MaxStops
    /\ stopsHandled' = stopsHandled + 1
    /\ IF activeAbortController = 0
       THEN /\ stopNotice' = "No review in progress."
            /\ UNCHANGED <<activeAbortController, aborted, rs>>
       ELSE /\ aborted' = [aborted EXCEPT ![activeAbortController] = TRUE]
            /\ rs' = [rs EXCEPT ![activeAbortController] = AbortRun(@)]
            /\ activeAbortController' = 0
            /\ stopNotice' = "Review cancelled. Agents are being stopped."
    /\ UNCHANGED <<hpc, notice, tempFiles, reports, sent, pureVars>>

\* ----------------------------------------------------------- specifications
StderrKinds == {"", "lock", "other"}
ParseKinds == {"ok", "fail", "throws"}
\* what a closing process leaves: a non-zero exit with its stderr, or exit 0
\* with what the final text parses to
CloseOutcomes ==
    {<<1, e, "fail">> : e \in StderrKinds} \cup {<<0, "", p>> : p \in ParseKinds}

\* no call of parseReviewOutput is being followed
ParserIdle ==
    /\ psrc = NoSource
    /\ ptext = <<>>
    /\ pcands = <<>>
    /\ ptried = 0
    /\ pout = NoOutput
    /\ ppc = "idle"

\* no timed run is being followed
ClockIdle ==
    /\ now = 0
    /\ deadline = <<>>
    /\ startedAt = <<>>
    /\ dueAt = <<>>

\* no reviewer's output is being followed
StreamIdle ==
    /\ stdout = <<>>
    /\ unread = <<>>
    /\ buffer = <<>>
    /\ messages = <<>>
    /\ finalText = <<>>
    /\ stpc = "idle"

\* no getReviewModels call is being followed
SelectionIdle ==
    /\ available = <<>>
    /\ selected = <<>>
    /\ spc = "idle"

\* no call of a pure function is being followed
PureIdle ==
    /\ ParserIdle
    /\ ClockIdle
    /\ SelectionIdle
    /\ StreamIdle
    /\ cResults = <<>>
    /\ cGroups = <<>>
    /\ processed = 0
    /\ memberOf = <<>>
    /\ consolidated = <<>>
    /\ formatted = NoReport
    /\ cpc = "idle"

\* the extension is loaded: no session, no request handled
OrchInit ==
    /\ activeAbortController = 0
    /\ aborted = [s \in Sessions |-> FALSE]
    /\ hpc = [s \in Sessions |-> "idle"]
    /\ notice = [s \in Sessions |-> "none"]
    /\ tempFiles = [s \in Sessions |-> FALSE]
    /\ reports = {}
    /\ sent = [s \in Sessions |-> NoReport]
    /\ stopsHandled = 0
    /\ stopNotice = "none"
    /\ rs = [s \in Sessions |-> NoRun]

Init == OrchInit /\ PureIdle

Next ==
    \/ \E s \in Sessions : StartRequest(s)
    \/ \E s \in Sessions : InputFails(s)
    \/ \E s \in Sessions : NoModels(s)
    \/ \E s \in Sessions, n \in 1..MaxModels : BeginReview(s, n)
    \/ \E s \in Sessions, w \in 1..MAX_CONCURRENCY : StaggerDone(s, w)
    \/ \E s \in Sessions, w \in 1..MAX_CONCURRENCY, o \in CloseOutcomes :
          ProcClose(s, w, o[1], o[2], o[3])
    \/ \E s \in Sessions, w \in 1..MAX_CONCURRENCY : BackoffDone(s, w)
    \/ \E s \in Sessions, w \in 1..MAX_CONCURRENCY : GraceTimer(s, w)
    \/ StopRequest

Spec == Init /\ [][Next]_vars

\* a Task Runner run on its own: any items, cap and stagger, a generic job
RunnerCall(n, items, concurrency, staggerMs) ==
    /\ rs[1].phase = "none"
    /\ rs' = [rs EXCEPT ![1] = mapWithConcurrencyLimit(items, n, concurrency, "generic", staggerMs, FALSE)]
    /\ UNCHANGED ctlVars

RunnerNext ==
    \/ \E n \in 0..MaxItems, c \in Caps, g \in StaggerValues :
          \E items \in [0..(n - 1) -> ItemValues] : RunnerCall(n, items, c, g)
    \/ \E w \in 1..MaxItems : StaggerDone(1, w)
    \/ \E w \in 1..MaxItems : GenericJobResolve(1, w)

SpecRunner == Init /\ [][RunnerNext]_vars

\* ------------------------------------------- a Task Runner run with a clock
\* The same run, with the time of every call of fn: a timer set at time t
\* with delay d fires at t + d or later, never earlier; a job takes any time.
untimedVars == <<activeAbortController, aborted, hpc, notice, tempFiles, reports, sent,
                 stopsHandled, stopNotice, consVars, parserVars, selVars, streamVars>>

\* the timers the workers of r2 wait for: one set in the step from r to r2 is
\* due its delay after t
TimersAfter(r, r2, t) ==
    [w \in 1..r2.limit |->
        IF r2.wk[w].pc # "stagger" THEN 0
        ELSE IF r.phase = "active" /\ r.wk[w].pc = "stagger" THEN deadline[w]
        ELSE t + r2.wk[w].delay]

\* the times fn was called at: t for the items called in the step from r to r2
StartsAfter(r, r2, t) ==
    [i \in 0..(r2.n - 1) |->
        IF r.phase = "active" /\ r.invoked[i] = r2.invoked[i] THEN startedAt[i]
        ELSE IF r2.invoked[i] > 0 THEN t
        ELSE -1]

\* the times the calls of fn were due at: an item claimed in the step from r
\* to r2 is due at t when no timer is set for it, and when its timer is due
\* otherwise
DuesAfter(r, r2, t) ==
    [i \in 0..(r2.n - 1) |->
        IF r.phase = "active" /\ dueAt[i] # -1 THEN dueAt[i]
        ELSE IF \E w \in 1..r2.limit : r2.wk[w].pc = "stagger" /\ r2.wk[w].cur = i
             THEN t + r2.wk[CHOOSE w \in 1..r2.limit :
                                r2.wk[w].pc = "stagger" /\ r2.wk[w].cur = i].delay
        ELSE IF r2.invoked[i] > 0 THEN t
        ELSE -1]

\* the run of the timed call moves to r2 at the time now
TimedAdvance(r2) ==
    /\ rs' = [rs EXCEPT ![1] = Settle(r2)]
    /\ deadline' = TimersAfter(rs[1], r2, now)
    /\ startedAt' = StartsAfter(rs[1], r2, now)
    /\ dueAt' = DuesAfter(rs[1], r2, now)
    /\ UNCHANGED <<now, untimedVars>>

TimedCall(n, items, concurrency, staggerMs) ==
    /\ rs[1].phase = "none"
    /\ TimedAdvance(mapWithConcurrencyLimit(items, n, concurrency, "generic",
                                            staggerMs, FALSE))

\* time passes
Tick ==
    /\ rs[1].phase = "active"
    /\ now < MaxTicks * TickMs
    /\ now' = now + TickMs
    /\ UNCHANGED <<rs, deadline, startedAt, dueAt, untimedVars>>

\* the stagger timer of worker w is due and its callback runs
TimedStaggerDone(w) ==
    /\ rs[1].phase = "active"
    /\ w \in 1..rs[1].limit
    /\ rs[1].wk[w].pc = "stagger"
    /\ now >= deadline[w]
    /\ TimedAdvance(CallFn(rs[1], w, FALSE))

\* the job of worker w resolves
TimedJobResolve(w) ==
    /\ rs[1].phase = "active"
    /\ w \in 1..rs[1].limit
    /\ rs[1].wk[w].pc = "job"
    /\ TimedAdvance(FnReturn(rs[1], w,
                             GenericResult(rs[1].items[rs[1].wk[w].cur], rs[1].wk[w].cur),
                             FALSE))

TimedNext ==
    \/ \E n \in 0..MaxItems, c \in Caps, g \in StaggerValues :
          \E items \in [0..(n - 1) -> ItemValues] : TimedCall(n, items, c, g)
    \/ Tick
    \/ \E w \in 1..MaxItems : TimedStaggerDone(w)
    \/ \E w \in 1..MaxItems : TimedJobResolve(w)

SpecTimedRunner == Init /\ [][TimedNext]_vars

\* The scheduling the runtime and the operating system guarantee: timers
\* fire, a reviewer that was sent no signal ends by itself, and a reviewer
\* that was sent SIGKILL ends. Nothing is promised of a reviewer that was
\* sent SIGTERM alone, and nothing of the user's commands.
ProcExitsUnsignalled(s, w) ==
    /\ w \in 1..rs[s].limit
    /\ ~rs[s].wk[w].proc.sigterm
    /\ \E o \in CloseOutcomes : ProcClose(s, w, o[1], o[2], o[3])

ProcExitsKilled(s, w) ==
    /\ w \in 1..rs[s].limit
    /\ rs[s].wk[w].proc.sigkill
    /\ \E o \in CloseOutcomes : ProcClose(s, w, o[1], o[2], o[3])

Fairness ==
    \A s \in Sessions : \A w \in 1..MAX_CONCURRENCY :
        /\ WF_vars(StaggerDone(s, w))
        /\ WF_vars(BackoffDone(s, w))
        /\ WF_vars(GraceTimer(s, w))
        /\ WF_vars(ProcExitsUnsignalled(s, w))
        /\ WF_vars(ProcExitsKilled(s, w))

FairSpec == Spec /\ Fairness

\* ------------------------------------------- the consolidator on its own
\* the findings the reviewers' outputs are made of: the base finding, the
\* base finding with one field changed, and two findings (one critical, one
\* a suggestion) whose words are shared with no other
LongText ==
    [title |-> <<"Null", "dereference">>,
     description |-> <<"user", "may", "be", "null", "here;", "add", "a", "check.">>,
     suggestion |-> <<"check", "user.id", "first">>]
NoWordsText == [title |-> <<"Why", "is", "it", "so?">>, description |-> <<>>]
QuarterText ==
    [title |-> <<"Null", "byte">>,
     description |-> <<"strip", "from", "input", "string">>]
ImportText == [title |-> <<"Unused", "import">>, description |-> <<"remove", "it">>]
RenameText ==
    [title |-> <<"Rename", "variable">>,
     description |-> <<"use", "a", "clearer", "name">>]
\* a text that shares three of its four words with LongText, one with the
\* text of BaseFinding
GuardText == [title |-> <<"Null", "dereference">>, description |-> <<"add", "guard">>]
\* two texts of ten significant words each, three of them shared
LoginText ==
    [title |-> <<"null", "pointer", "crash">>,
     description |-> <<"login", "handler", "session", "token", "expired", "request",
                       "fails">>]
CacheText ==
    [title |-> <<"null", "pointer", "crash">>,
     description |-> <<"cache", "stale", "entry", "returned", "wrong", "value", "twice">>]

WithText(f, text) ==
    [f EXCEPT !.title = text.title, !.description = text.description]

FindingPool ==
    {BaseFinding}
    \cup {[BaseFinding EXCEPT !.line = l] : l \in {25, 26}}
    \cup {[BaseFinding EXCEPT !.severity = v] : v \in {"critical", "suggestion"}}
    \cup {[BaseFinding EXCEPT !.file = "b.ts"],
          [BaseFinding EXCEPT !.suggestion = <<"fix">>]}
    \cup {[WithText(BaseFinding, LongText) EXCEPT !.suggestion = LongText.suggestion]}
    \cup {WithText(BaseFinding, x) : x \in {NoWordsText, QuarterText, LoginText, CacheText}}
    \cup {WithText([BaseFinding EXCEPT !.severity = "critical"], ImportText),
          WithText([BaseFinding EXCEPT !.severity = "suggestion"], RenameText)}

\* what one reviewer found: nothing, one finding of the pool, or two
FindingLists ==
    {<<>>}
    \cup {<<f>> : f \in FindingPool}
    \cup {<<BaseFinding, f>> :
            f \in {BaseFinding, [BaseFinding EXCEPT !.line = 26],
                   WithText([BaseFinding EXCEPT !.severity = "critical"], ImportText),
                   WithText([BaseFinding EXCEPT !.severity = "suggestion"], RenameText)}}
    \cup {<<[WithText(BaseFinding, LongText) EXCEPT !.line = 25],
             [WithText(BaseFinding, GuardText) EXCEPT !.line = 0]>>}

\* the AgentResult of the k-th reviewer: a failure, or a parsed output
ResultChoices(k) ==
    {[kind |-> "agent", model |-> k, output |-> "null", error |-> "other",
      exitCode |-> 1]}
    \cup {[kind |-> "agent", model |-> k, output |-> "parsed", error |-> "none",
           exitCode |-> 0, findings |-> fs] : fs \in FindingLists}

RECURSIVE ResultInputs(_)
ResultInputs(n) ==
    IF n = 0 THEN {<<>>}
    ELSE ResultInputs(n - 1)
         \cup {Append(rest, x) : rest \in {q \in ResultInputs(n - 1) : Len(q) = n - 1},
                                 x \in ResultChoices(n)}

ConsolidatorInit ==
    /\ OrchInit
    /\ ParserIdle
    /\ ClockIdle
    /\ SelectionIdle
    /\ StreamIdle
    /\ cResults \in ResultInputs(MaxResults)
    /\ cGroups = <<>>
    /\ processed = 0
    /\ memberOf = <<>>
    /\ consolidated = <<>>
    /\ formatted = NoReport
    /\ cpc = "grouping"

\* one pass of for (const { finding, agent } of all)
GroupNext ==
    /\ cpc = "grouping"
    /\ processed < Len(Flatten(cResults))
    /\ LET e == Flatten(cResults)[processed + 1]
       IN  /\ cGroups' = GroupStep(cGroups, e)
           /\ memberOf' = Append(memberOf, TargetGroup(cGroups, e))
    /\ processed' = processed + 1
    /\ UNCHANGED <<orchVars, parserVars, clockVars, selVars, streamVars, cResults, consolidated, formatted, cpc>>

\* return groups.sort(...)
SortReturn ==
    /\ cpc = "grouping"
    /\ processed = Len(Flatten(cResults))
    /\ consolidated' = SortGroups(cGroups)
    /\ cpc' = "returned"
    /\ UNCHANGED <<orchVars, parserVars, clockVars, selVars, streamVars, cResults, cGroups, processed, memberOf, formatted>>

\* formatReport(results, consolidated, ..., totalAgents)
FormatReturned ==
    /\ cpc = "returned"
    /\ formatted' = formatReport(cResults, consolidated, Len(cResults))
    /\ cpc' = "formatted"
    /\ UNCHANGED <<orchVars, parserVars, clockVars, selVars, streamVars, cResults, cGroups, processed, memberOf,
                   consolidated>>

ConsolidatorNext == GroupNext \/ SortReturn \/ FormatReturned

SpecConsolidator == ConsolidatorInit /\ [][ConsolidatorNext]_vars

\* ------------------------------------------------ the parser on its own
\* A text is a document, or none, presented raw, inside a code fence (tagged
\* json or not), between prose, or inside a second code fence behind a first
\* one that holds another document.

BaseEntry ==
    [t |-> "entry", file |-> JStr("a.ts"), line |-> JNum(10), severity |-> JStr("warning"),
     category |-> JStr("bug"), title |-> JStr("Missing null check"),
     description |-> JStr("user may be null"), suggestion |-> JUndefined, special |-> <<>>]
SecondEntry ==
    [BaseEntry EXCEPT !.file = JStr("b.ts"), !.line = JNum(0),
                      !.severity = JStr("critical"), !.suggestion = JStr("add a guard")]
Review(findings, summary, score) ==
    [t |-> "obj", findings |-> findings, summary |-> summary, score |-> score]
WithEntry(e) == Review(JArr(<<e>>), JStr("one issue"), JNum(7))
WithScore(x) == Review(JArr(<<BaseEntry>>), JStr("scored"), x)

\* documents of the shape the reviewers are asked for; the strings of the
\* last four hold braces or fences
ShapedDocs ==
    {Review(JArr(<<>>), JStr("clean"), JNum(7)),
     Review(JArr(<<BaseEntry>>), JStr("one issue"), JNum(1)),
     Review(JArr(<<BaseEntry, SecondEntry>>), JStr(""), JNum(10))}
    \cup {WithEntry([BaseEntry EXCEPT !.special = sp]) :
             sp \in {<<"s}">>, <<"s{">>, <<"sfence", "sfence">>, <<"sfence", "s}">>}}

\* documents with an object and an array of findings, of another shape
OddDocs ==
    {WithScore(x) : x \in {JNum(0), JNum(15), JNum(-3), JStr("nine"), JStr("15"),
                           JUndefined, JNull}}
    \cup {WithEntry([BaseEntry EXCEPT !.severity = x]) : x \in {JStr("blocker"), JUndefined}}
    \cup {Review(JArr(<<[BaseEntry EXCEPT !.file = JUndefined], SecondEntry>>),
                 JUndefined, JNum(7)),
          Review(JArr(<<[BaseEntry EXCEPT !.title = JStr("")]>>), JStr("untitled"), JNum(7)),
          Review(JArr(<<JNum(5), BaseEntry>>), JStr("a number"), JNum(7)),
          Review(JArr(<<BaseEntry, JNull>>), JStr("a null"), JNum(7))}

\* documents without an array of findings
NoFindingsDocs ==
    {Review(JStr("none"), JStr("no array"), JNum(7)),
     Review(JUndefined, JStr("no findings"), JNum(7)),
     Review(JNull, JStr("null findings"), JNum(7)),
     JNull, JNum(3), JArr(<<BaseEntry>>)}

DocPool == ShapedDocs \cup OddDocs \cup NoFindingsDocs \cup {NoDoc}

ProseTokens == {Tok("word"), Tok("ws"), Tok("{"), Tok("}"), Tok("fence"), Tok("json"),
                Tok("quoted")}
RECURSIVE ProseUpTo(_)
ProseUpTo(n) ==
    IF n = 0 THEN {<<>>}
    ELSE ProseUpTo(n - 1)
         \cup {Append(q, x) : q \in {r \in ProseUpTo(n - 1) : Len(r) = n - 1},
                              x \in ProseTokens}

DocText(d) == IF d = NoDoc THEN <<>> ELSE Serialize(d)

\* a document inside a code fence
Fenced(d) == <<Tok("fence"), Tok("ws")>> \o DocText(d) \o <<Tok("ws"), Tok("fence")>>

\* the documents of a first fence: one whose findings hold a null, one
\* without an array of findings, one of the asked shape
FirstDocs ==
    {Review(JArr(<<BaseEntry, JNull>>), JStr("a null"), JNum(7)),
     Review(JStr("none"), JStr("no array"), JNum(7)),
     Review(JArr(<<>>), JStr("clean"), JNum(7))}
\* the documents of a second fence
SecondDocs == {Review(JArr(<<BaseEntry>>), JStr("one issue"), JNum(1)), JNull}

Sources ==
    {[doc |-> d, mode |-> m, before |-> <<>>, after |-> <<>>] :
        d \in DocPool, m \in {"raw", "fenced", "tagged"}}
    \cup {[doc |-> d, mode |-> "prose", before |-> b, after |-> a] :
             d \in DocPool, b \in ProseUpTo(MaxProse), a \in ProseUpTo(MaxProse)}
    \cup {[doc |-> d, mode |-> "second", before |-> Fenced(f) \o <<Tok("ws")>>,
           after |-> <<>>] : d \in SecondDocs, f \in FirstDocs}

\* the text of a source
Compose(src) ==
    CASE src.mode = "fenced" -> Fenced(src.doc)
      [] src.mode = "second" -> src.before \o Fenced(src.doc)
      [] src.mode = "tagged" ->
            <<Tok("fence"), Tok("json"), Tok("ws")>> \o DocText(src.doc)
            \o <<Tok("ws"), Tok("fence")>>
      [] OTHER -> src.before \o DocText(src.doc) \o src.after

ParserInit ==
    /\ OrchInit
    /\ ClockIdle
    /\ SelectionIdle
    /\ StreamIdle
    /\ cResults = <<>>
    /\ cGroups = <<>>
    /\ processed = 0
    /\ memberOf = <<>>
    /\ consolidated = <<>>
    /\ formatted = NoReport
    /\ cpc = "idle"
    /\ psrc \in Sources
    /\ ptext = Compose(psrc)
    /\ pcands = <<>>
    /\ ptried = 0
    /\ pout = NoOutput
    /\ ppc = "called"

\* the four strategies push their candidates
ExtractCandidates ==
    /\ ppc = "called"
    /\ pcands' = Candidates(ptext)
    /\ ppc' = "trying"
    /\ UNCHANGED <<orchVars, consVars, clockVars, selVars, streamVars, psrc, ptext, ptried, pout>>

\* one pass of for (const candidate of candidates)
TryCandidate ==
    /\ ppc = "trying"
    /\ ptried < Len(pcands)
    /\ LET outcome == TryCatch(ProcessCandidate(pcands[ptried + 1]))
       IN  /\ ppc' = (CASE outcome.kind = "return" -> "returned"
                        [] outcome.kind = "throw" -> "threw"
                        [] OTHER -> "trying")
           /\ pout' = IF outcome.kind = "return" THEN outcome.val ELSE pout
    /\ ptried' = ptried + 1
    /\ UNCHANGED <<orchVars, consVars, clockVars, selVars, streamVars, psrc, ptext, pcands>>

\* return null
ReturnNull ==
    /\ ppc = "trying"
    /\ ptried = Len(pcands)
    /\ pout' = NullOutput
    /\ ppc' = "returned"
    /\ UNCHANGED <<orchVars, consVars, clockVars, selVars, streamVars, psrc, ptext, pcands, ptried>>

ParserNext == ExtractCandidates \/ TryCandidate \/ ReturnNull

SpecParser == ParserInit /\ [][ParserNext]_vars

\* ------------------------------------------------ model selection on its own
\* The registry of an environment: the models of the primary provider
\* (preferred ones and others), the default model of the first secondary
\* providers, another model of the first of them in front of its default, and
\* a model of a provider that is not configured.
PrimaryCatalogue ==
    <<Model(PRIMARY, "claude-3-opus", "Claude 3 Opus"),
      Model(PRIMARY, CLAUDE_PREFERRED[3], "Claude Haiku 4.5"),
      Model(PRIMARY, "claude-3-haiku", ""),
      Model(PRIMARY, CLAUDE_PREFERRED[1], "Claude Opus 4.6"),
      Model(PRIMARY, "claude-2", "Claude 2"),
      Model(PRIMARY, CLAUDE_PREFERRED[2], "")>>
ExtraCatalogue ==
    <<Model(EXTRA_PROVIDER_PREFERRED[1][1], "gpt-4o", "GPT-4o")>>
    \o [k \in 1..MaxExtraProviders |->
           Model(EXTRA_PROVIDER_PREFERRED[k][1], EXTRA_PROVIDER_PREFERRED[k][2], "")]
    \o <<Model("ollama", "llama3", "Llama 3")>>
Catalogue == PrimaryCatalogue \o ExtraCatalogue

\* the models of the catalogue at the indices of a set, in its order or in
\* the reverse order
RECURSIVE Pick(_, _, _)
Pick(catalogue, indices, k) ==
    IF k > Len(catalogue) THEN <<>>
    ELSE (IF k \in indices THEN <<catalogue[k]>> ELSE <<>>)
         \o Pick(catalogue, indices, k + 1)
Reverse(q) == [k \in 1..Len(q) |-> q[Len(q) + 1 - k]]
Registries ==
    {Pick(Catalogue, indices, 1) : indices \in SUBSET (1..Len(Catalogue))}
    \cup {Reverse(Pick(Catalogue, indices, 1)) : indices \in SUBSET (1..Len(Catalogue))}

\* ctx.modelRegistry.getAvailable(), in the handler that resolved its input
GetAvailable(avail) ==
    /\ hpc[1] = "resolving"
    /\ spc = "idle"
    /\ available' = avail
    /\ spc' = "preferred"
    /\ UNCHANGED <<orchVars, consVars, parserVars, clockVars, streamVars, selected>>

\* the loop over CLAUDE_PREFERRED
PickPreferred ==
    /\ spc = "preferred"
    /\ selected' = PreferredLoop(OfProvider(available, PRIMARY), 1, selected)
    /\ spc' = "fallback"
    /\ UNCHANGED <<orchVars, consVars, parserVars, clockVars, streamVars, available>>

\* if (models.length === 0) ...
PickFallback ==
    /\ spc = "fallback"
    /\ selected' = Fallback(OfProvider(available, PRIMARY), selected)
    /\ spc' = "extras"
    /\ UNCHANGED <<orchVars, consVars, parserVars, clockVars, streamVars, available>>

\* the loop over EXTRA_PROVIDER_PREFERRED; return models
PickExtras ==
    /\ spc = "extras"
    /\ selected' = ExtrasLoop(available, 1, selected)
    /\ spc' = "returned"
    /\ UNCHANGED <<orchVars, consVars, parserVars, clockVars, streamVars, available>>

\* the handler with the list: the error and return, or the temp files, the
\* AbortController and the run
UseModels ==
    /\ spc = "returned"
    /\ IF NoModelsAvailable(selected) THEN NoModels(1) ELSE StartRun(1, Len(selected))

SelectionNext ==
    \/ StartRequest(1)
    \/ \E avail \in Registries : GetAvailable(avail)
    \/ PickPreferred
    \/ PickFallback
    \/ PickExtras
    \/ UseModels

SpecSelection == Init /\ [][SelectionNext]_vars

\* ------------------------------------------------ the event stream on its own
\* The stdout of a reviewer is a sequence of bytes; runs of ASCII bytes that
\* a chunk boundary cannot change are one unit: the bytes of an event line up
\* to the text of its message (Open, with what the event holds), the bytes
\* that close it, a blank, a newline, bytes that are no JSON, the literal
\* null. The text of a message is a letter or the two bytes of a character
\* of two UTF-8 bytes.
Nl == Tok("nl")
Sp == Tok("ws")
Junk == Tok("junk")
NullLit == Tok("null")
Letter(c) == [t |-> "letter", c |-> c]
Lead == Tok("lead")
Cont == Tok("cont")
TwoByteChar == [t |-> "char", c |-> "e-acute"]
ReplacementChar == Tok("U+FFFD")
Open(type, hasMessage, role, parts) ==
    [t |-> "open", type |-> type, hasMessage |-> hasMessage, role |-> role, parts |-> parts]
Close == Tok("close")

\* data.toString(): the UTF-8 decoding of one chunk on its own; a byte
\* sequence cut by the end or the start of the chunk decodes to U+FFFD
RECURSIVE ChunkToString(_)
ChunkToString(data) ==
    IF data = <<>> THEN <<>>
    ELSE IF Head(data).t = "lead"
    THEN IF Len(data) >= 2 /\ data[2].t = "cont"
         THEN <<TwoByteChar>> \o ChunkToString(SubSeq(data, 3, Len(data)))
         ELSE <<ReplacementChar>> \o ChunkToString(Tail(data))
    ELSE IF Head(data).t = "cont" THEN <<ReplacementChar>> \o ChunkToString(Tail(data))
    ELSE <<Head(data)>> \o ChunkToString(Tail(data))

\* buffer.split("\n")
RECURSIVE SplitLines(_, _)
SplitLines(str, line) ==
    IF str = <<>> THEN <<line>>
    ELSE IF Head(str).t = "nl" THEN <<line>> \o SplitLines(Tail(str), <<>>)
    ELSE SplitLines(Tail(str), Append(line, Head(str)))

IsTextChar(u) == u.t \in {"letter", "char", "U+FFFD"}
SyntaxErrorOfLine == [ok |-> FALSE]
\* JSON.parse(line): null, an event object, or a SyntaxError
ParseLine(line) ==
    LET l == Trim(line)
    IN  IF l = <<NullLit>> THEN [ok |-> TRUE, isNull |-> TRUE]
        ELSE IF /\ Len(l) >= 2
                /\ l[1].t = "open"
                /\ l[Len(l)].t = "close"
                /\ \A k \in 2..(Len(l) - 1) : IsTextChar(l[k])
        THEN [ok |-> TRUE, isNull |-> FALSE, type |-> l[1].type,
              hasMessage |-> l[1].hasMessage,
              message |-> [role |-> l[1].role, parts |-> l[1].parts,
                           body |-> SubSeq(l, 2, Len(l) - 1)]]
        ELSE SyntaxErrorOfLine

\* processLine(line): the messages after it, or the TypeError of reading
\* event.type of null
processLine(line, msgs) ==
    IF Trim(line) = <<>> THEN [threw |-> FALSE, messages |-> msgs]
    ELSE LET event == ParseLine(line)
         IN  IF ~event.ok THEN [threw |-> FALSE, messages |-> msgs]
             ELSE IF event.isNull THEN [threw |-> TRUE, messages |-> msgs]
             ELSE IF event.type \in {"message_end", "tool_result_end"} /\ event.hasMessage
             THEN [threw |-> FALSE, messages |-> Append(msgs, event.message)]
             ELSE [threw |-> FALSE, messages |-> msgs]

\* for (const line of lines) processLine(line)
RECURSIVE ProcessLines(_, _)
ProcessLines(lines, state) ==
    IF lines = <<>> \/ state.threw THEN state
    ELSE ProcessLines(Tail(lines), processLine(Head(lines), state.messages))

\* getFinalOutput(messages): from the last message back, the first text part
\* of an assistant message; a message holds at most one text part here, and
\* its body is that part's text
RECURSIVE getFinalOutput(_)
getFinalOutput(msgs) ==
    IF msgs = <<>> THEN <<>>
    ELSE LET msg == msgs[Len(msgs)]
         IN  IF msg.role = "assistant" /\ \E k \in DOMAIN msg.parts : msg.parts[k] = "text"
             THEN msg.body
             ELSE getFinalOutput(SubSeq(msgs, 1, Len(msgs) - 1))

\* the lines a reviewer may write
EventLine(type, hasMessage, role, parts, body) ==
    <<Open(type, hasMessage, role, parts)>> \o body \o <<Close>>
LinePool ==
    {EventLine("message_end", TRUE, "assistant", <<"text">>, <<Letter("a")>>),
     EventLine("message_end", TRUE, "assistant", <<"text">>, <<Lead, Cont>>),
     EventLine("message_end", TRUE, "assistant", <<"toolCall">>, <<Letter("b")>>),
     EventLine("tool_result_end", TRUE, "toolResult", <<"text">>, <<Letter("b")>>),
     EventLine("turn_end", TRUE, "assistant", <<"text">>, <<Letter("a")>>),
     EventLine("message_end", FALSE, "assistant", <<>>, <<>>),
     <<Open("message_end", TRUE, "assistant", <<"text">>), Letter("a")>>,
     <<Junk>>, <<Sp>>, <<>>, <<NullLit>>}

RECURSIVE OutputsOf(_)
OutputsOf(n) ==
    IF n = 0 THEN {<<>>}
    ELSE LET shorter == OutputsOf(n - 1)
         IN  shorter \cup {o \o <<Nl>> \o l : o \in shorter, l \in LinePool}
                     \cup {l : l \in LinePool}
\* with or without a newline behind the last line
Outputs == {o : o \in OutputsOf(MaxLines)} \cup {o \o <<Nl>> : o \in OutputsOf(MaxLines)}

StreamInit ==
    /\ OrchInit
    /\ ParserIdle
    /\ ClockIdle
    /\ SelectionIdle
    /\ cResults = <<>>
    /\ cGroups = <<>>
    /\ processed = 0
    /\ memberOf = <<>>
    /\ consolidated = <<>>
    /\ formatted = NoReport
    /\ cpc = "idle"
    /\ stdout \in Outputs
    /\ unread = stdout
    /\ buffer = <<>>
    /\ messages = <<>>
    /\ finalText = <<>>
    /\ stpc = "reading"

\* proc.stdout.on("data", ...): a chunk of the next n bytes
OnData(n) ==
    /\ stpc = "reading"
    /\ n \in 1..Len(unread)
    /\ LET lines == SplitLines(buffer \o ChunkToString(SubSeq(unread, 1, n)), <<>>)
           after == ProcessLines(SubSeq(lines, 1, Len(lines) - 1),
                                 [threw |-> FALSE, messages |-> messages])
       IN  /\ buffer' = lines[Len(lines)]
           /\ messages' = after.messages
           /\ stpc' = IF after.threw THEN "threw" ELSE "reading"
    /\ unread' = SubSeq(unread, n + 1, Len(unread))
    /\ UNCHANGED <<orchVars, consVars, parserVars, clockVars, selVars, stdout, finalText>>

\* proc.on("close", ...): if (buffer.trim()) processLine(buffer); resolve
OnClose ==
    /\ stpc = "reading"
    /\ unread = <<>>
    /\ LET after == processLine(buffer, messages)
       IN  /\ messages' = after.messages
           /\ stpc' = IF after.threw THEN "threw" ELSE "closed"
    /\ UNCHANGED <<orchVars, consVars, parserVars, clockVars, selVars, stdout, unread,
                   buffer, finalText>>

\* const finalText = getFinalOutput(messages)
ExtractFinal ==
    /\ stpc = "closed"
    /\ finalText' = getFinalOutput(messages)
    /\ stpc' = "extracted"
    /\ UNCHANGED <<orchVars, consVars, parserVars, clockVars, selVars, stdout, unread,
                   buffer, messages>>

StreamNext == (\E n \in 1..Len(unread) : OnData(n)) \/ OnClose \/ ExtractFinal

SpecStream == StreamInit /\ [][StreamNext]_vars

\* ------------------------------------------------------------------ claims
InProgress == {s \in Sessions : hpc[s] \in {"resolving", "running"}}
Reviewing == {s \in Sessions : \E w \in 1..rs[s].limit : rs[s].wk[w].proc.alive}
Running == {s \in Sessions : hpc[s] = "running"}
\* the jobs of a run that were started and are not resolved
Unresolved(r) == {i \in 0..(r.n - 1) : r.invoked[i] > 0 /\ r.results[i] = Empty}

\* C1: at every moment at most one review session is in progress (from the
\* acceptance of its start request to the end of its cleanup), and reviewer
\* processes of two different sessions never run at the same time.
SingleFlight ==
    /\ Cardinality(InProgress) <= 1
    /\ Cardinality(Reviewing) <= 1

\* C2: a stop request handled while a session is running its reviewers fires
\* that session's cancellation signal; a stop request handled while no session
\* is running changes no state and only emits a notice.
StopSemantics ==
    [][stopsHandled' # stopsHandled =>
          /\ \A s \in Running : aborted'[s]
          /\ (Running = {} =>
                UNCHANGED <<activeAbortController, aborted, hpc, notice,
                            tempFiles, reports, sent, rs>>)]_vars

\* C3: in a Task Runner run over N >= 1 items with cap C, at no instant are
\* more than max(1, min(C, N)) jobs started and not yet resolved.
ConcurrencyBound ==
    \A s \in Sessions :
        rs[s].n >= 1 =>
            Cardinality(Unresolved(rs[s])) <= Max(1, Min(rs[s].concurrency, rs[s].n))

\* C3 witness: a run whose cap is below its item count holds exactly cap
\* unresolved jobs after an earlier job has resolved.
ConcurrencyBoundWitness ==
    /\ rs[1].fn = "generic"
    /\ rs[1].concurrency >= 2
    /\ rs[1].concurrency < rs[1].n
    /\ Cardinality(Unresolved(rs[1])) = rs[1].concurrency
    /\ \E i \in 0..(rs[1].n - 1) : rs[1].results[i] # Empty

OrderPreserved ==
    \A i \in 0..(rs[1].n - 1) :
        /\ rs[1].fn = "generic" /\ rs[1].results[i] # Empty
              => rs[1].results[i] = GenericResult(rs[1].items[i], i)
        /\ rs[1].fn = "generic" /\ rs[1].phase = "resolved"
              => rs[1].results[i] # Empty

\* C5 witness: the job of a later item has resolved before the job of the
\* first item, and its result sits at its own index.
OrderPreservedWitness ==
    /\ rs[1].fn = "generic"
    /\ rs[1].n >= 3
    /\ rs[1].items[0] # rs[1].items[2]
    /\ rs[1].invoked[0] = 1
    /\ rs[1].results[0] = Empty
    /\ rs[1].results[2] = GenericResult(rs[1].items[2], 2)

\* C6: every run the controller starts eventually resolves and its handler
\* ends, also when cancellation is signalled mid-run and whatever a reviewer
\* does on receiving SIGTERM.
EveryRunResolves ==
    \A s \in Sessions : (hpc[s] = "running") ~> (hpc[s] \in {"done", "threw"})

\* C7: a cancelled reviewer has been sent SIGTERM and a 5000 ms timer is
\* armed for it; if it is still running when that timer fires, it has been
\* sent SIGKILL.
ForceKillAfterGrace ==
    \A s \in Sessions : \A w \in 1..rs[s].limit :
        LET p == rs[s].wk[w].proc
        IN  /\ (p.alive /\ aborted[s]) => (p.sigterm /\ p.graceMs = 5000)
            /\ (p.alive /\ p.grace = "fired") => p.sigkill

\* C8: a job whose work function begins after its session's cancellation
\* signal fired returns the placeholder result (output absent, error
\* "Cancelled") in that same step, and no reviewer process is spawned for it.
CancelledPlaceholders ==
    [][\A s \in Sessions :
          (rs[s].phase = "active" /\ rs[s].fn = "review" /\ aborted[s]) =>
              \A i \in 0..(rs[s].n - 1) :
                  rs'[s].invoked[i] > rs[s].invoked[i] =>
                      /\ rs'[s].results[i] = CancelledResult(rs[s].items[i])
                      /\ \A w \in 1..rs[s].limit :
                            rs'[s].wk[w].proc.alive => rs[s].wk[w].proc.alive]_vars

\* C8 witness: after the signal fired, the second job of a session returned
\* the placeholder while the first job, started before the signal, is still
\* waiting for its reviewer.
CancelledPlaceholdersWitness ==
    \E s \in Sessions :
        /\ aborted[s]
        /\ rs[s].n >= 2
        /\ rs[s].phase = "active"
        /\ rs[s].invoked[1] = 1
        /\ rs[s].results[1] = CancelledResult(rs[s].items[1])
        /\ rs[s].results[0] = Empty

\* C9: for a session whose cancellation signal fired (which can only happen
\* before its run resolves) no report is ever emitted, and its handler ends
\* with the cancelled notice.
ReportSuppressed ==
    \A s \in Sessions :
        /\ activeAbortController = s => hpc[s] = "running"
        /\ aborted[s] =>
              /\ s \notin reports
              /\ hpc[s] \in {"running", "done"}
              /\ hpc[s] = "done" => notice[s] = "Review was cancelled."

\* C9 witness: a cancelled session has ended although one of its reviewers
\* had delivered a parsed output.
ReportSuppressedWitness ==
    \E s \in Sessions :
        /\ aborted[s]
        /\ hpc[s] = "done"
        /\ \E i \in 0..(rs[s].n - 1) : rs[s].results[i].output = "parsed"

\* what the retry loop keeps true of a worker's job: at most 3 attempts, a
\* wait of 3000 * k ms before retry k, and a lock failure behind every retry
RetryState(k) ==
    /\ k.attempt \in 0..2
    /\ k.pc = "backoff" =>
          /\ k.attempt \in 1..2
          /\ k.delay = 3000 * k.attempt
    /\ (k.pc \in {"backoff", "job"} /\ k.attempt > 0) =>
          (k.exitCode # 0 /\ k.stderr = "lock")

\* one step of worker w's job: a respawn follows a wait, a wait follows a
\* lock failure, and any other end of an attempt stores the job's result
RetryStep(r, r2, w) ==
    LET k == r.wk[w]
        k2 == r2.wk[w]
        res == r2.results[k.cur]
    IN  /\ (k2.pc = "job" /\ k2.attempt > 0 /\ k2.proc.alive /\ ~k.proc.alive)
              => (k.pc = "backoff" /\ k2.attempt = k.attempt)
        /\ (k.pc = "job" /\ k2.pc = "backoff")
              => (k2.attempt = k.attempt + 1 /\ k2.exitCode # 0 /\ k2.stderr = "lock")
        /\ (k.pc = "job" /\ k2.pc \notin {"job", "backoff"})
              => /\ res # Empty
                 /\ res.exitCode # 0 => (res.output = "null" /\ res.error # "none")
                 /\ res.error = "lock" => k.attempt = 2

\* C10: a reviewer is re-invoked only after an attempt that exited non-zero
\* with the lock marker in stderr; no job makes more than 3 attempts; the wait
\* before retry k is 3000 * k ms; any other non-zero exit, and the third lock
\* failure, end the job in that step with an error result.
LockRetryPolicy ==
    /\ [](\A s \in Sessions : \A w \in 1..rs[s].limit :
            rs[s].fn = "review" => RetryState(rs[s].wk[w]))
    /\ [][\A s \in Sessions :
            (rs[s].phase = "active" /\ rs[s].fn = "review") =>
                \A w \in 1..rs[s].limit : RetryStep(rs[s], rs'[s], w)]_vars

\* C10 witness: a job waits 6000 ms before its second retry, after two
\* attempts that failed on the lock.
LockRetryPolicyWitness ==
    \E s \in Sessions : \E w \in 1..rs[s].limit :
        /\ rs[s].wk[w].pc = "backoff"
        /\ rs[s].wk[w].attempt = 2
        /\ rs[s].wk[w].delay = 6000

\* the models of a run whose result has a parsed output, and those without
Succeeded(r) == {i \in 0..(r.n - 1) : r.results[i].output = "parsed"}
Failed(r) == {i \in 0..(r.n - 1) : r.results[i].output = "null"}
SeqRange(q) == {q[k] : k \in DOMAIN q}

\* C11: a failing reviewer (a non-zero exit without the lock marker, a failed
\* spawn, an output that does not parse) never aborts its session: no sibling
\* is signalled, every selected model runs to a result of its own, and the
\* report is emitted; it lists exactly the successful agents, prints the
\* findings with the count of successful agents that reported them, and its
\* failure note names every failed agent once.
FailureContained ==
    \A s \in Sessions :
        /\ ~aborted[s] => \A w \in 1..rs[s].limit : ~rs[s].wk[w].proc.killed
        /\ (hpc[s] = "done" /\ rs[s].phase = "resolved" /\ ~aborted[s]) =>
              /\ \A i \in 0..(rs[s].n - 1) :
                    /\ rs[s].invoked[i] = 1
                    /\ rs[s].results[i] # Empty
                    /\ rs[s].results[i].error # "Cancelled"
              /\ s \in reports
              /\ sent[s].kind = "report"
              /\ Len(sent[s].agents) = Cardinality(Succeeded(rs[s]))
              /\ SeqRange(sent[s].agents) = {rs[s].items[i] : i \in Succeeded(rs[s])}
              /\ Len(sent[s].failed) = Cardinality(Failed(rs[s]))
              /\ {x.name : x \in SeqRange(sent[s].failed)}
                    = {rs[s].items[i] : i \in Failed(rs[s])}
              /\ IF Succeeded(rs[s]) = {}
                 THEN sent[s].body = <<>>
                 ELSE /\ Len(sent[s].body) = 1
                      /\ sent[s].body[1].consensus
                            = <<Cardinality(Succeeded(rs[s])), rs[s].n>>

\* C11 witness: a report was emitted for a session in which one reviewer
\* failed and another delivered a parsed output.
FailureContainedWitness ==
    \E s \in Sessions :
        /\ s \in reports
        /\ Len(sent[s].failed) = 1
        /\ sent[s].failed[1].error = "other"
        /\ Len(sent[s].agents) = 1

AgentResultInvariant ==
    \A s \in Sessions : \A i \in 0..(rs[s].n - 1) :
        (rs[s].fn = "review" /\ rs[s].results[i] # Empty) =>
            (rs[s].results[i].error \notin {"none", ""}
                <=> rs[s].results[i].output = "null")

\* C13 witness: one run holds a parsed output and the result of a reviewer
\* that exited non-zero with an empty stderr.
AgentResultInvariantWitness ==
    \E s \in Sessions : \E i, j \in 0..(rs[s].n - 1) :
        /\ rs[s].results[i] # Empty
        /\ rs[s].results[j] # Empty
        /\ rs[s].results[i].output = "parsed"
        /\ rs[s].results[j].error = "Exit code"

\* three results of three agents, each a parsed output of the same one finding
ThreeReportTheSame ==
    /\ Len(cResults) = 3
    /\ \A k \in 1..3 :
          /\ cResults[k].output = "parsed"
          /\ Len(cResults[k].findings) = 1
          /\ cResults[k].findings = cResults[1].findings

OneGroupOfThree ==
    /\ Len(consolidated) = 1
    /\ Len(consolidated[1].agents) = 3
    /\ consolidated[1].consensusScore = 3 * SEVERITY_WEIGHT[consolidated[1].severity]

\* C14: the same single finding from 3 different agents, whatever its title
\* and description, is returned as exactly one group with 3 agents and
\* consensusScore 3 x severityWeight(severity).
DedupIdempotent ==
    (cpc = "returned" /\ ThreeReportTheSame) => OneGroupOfThree

\* C14 as amended: the same holds of every finding whose title and
\* description hold at least one significant word.
DedupIdempotentWithWords ==
    (cpc = "returned" /\ ThreeReportTheSame
     /\ extractSignificantWords(cResults[1].findings[1].title
                                \o cResults[1].findings[1].description) # {})
        => OneGroupOfThree

\* C14 witness: three agents reported the same finding with significant
\* words, and one group of three was returned.
DedupIdempotentWitness ==
    /\ cpc = "returned"
    /\ ThreeReportTheSame
    /\ cResults[1].findings[1].severity = "critical"
    /\ OneGroupOfThree

\* the flattened finding with index i
FlatFinding(i) == Flatten(cResults)[i].finding

\* C15: two findings whose lines differ by 16 or more are never in the same
\* group.
DedupBoundary ==
    \A i, j \in 1..processed :
        memberOf[i] = memberOf[j] =>
            Abs(FlatFinding(i).line - FlatFinding(j).line) <= 15

\* C15 as amended: a finding is never merged into a group whose line (the line
\* of the finding that started it) differs from its own by 16 or more,
\* whatever the texts; two findings of one group are at most 30 lines apart.
DedupBoundaryOfGroup ==
    LET all == Flatten(cResults)
    IN  /\ \A i \in 1..processed :
              Abs(all[i].finding.line - cGroups[memberOf[i]].line) <= 15
        /\ \A i, j \in 1..processed :
              memberOf[i] = memberOf[j] =>
                  Abs(all[i].finding.line - all[j].finding.line) <= 30

\* C15 witness: a finding was merged into a group whose line is exactly 15
\* away, and a finding 16 away with the same text was not.
DedupBoundaryWitness ==
    \E i, j \in 1..processed :
        /\ Abs(FlatFinding(i).line - cGroups[memberOf[i]].line) = 15
        /\ FlatFinding(j).title = FlatFinding(i).title
        /\ FlatFinding(j).file = FlatFinding(i).file
        /\ Abs(FlatFinding(j).line - cGroups[memberOf[i]].line) = 16
        /\ memberOf[j] # memberOf[i]

\* the position in a list of its only element that satisfies Is
PositionOf(list, Is(_)) == CHOOSE k \in DOMAIN list : Is(list[k])

\* a critical group of 1 agent, a warning group of 3 agents and a suggestion
\* group of 1 agent are what the consolidator returned
RankingCase ==
    /\ cpc = "formatted"
    /\ Len(consolidated) = 3
    /\ \E c, w, g \in 1..3 :
          /\ consolidated[c].severity = "critical" /\ Len(consolidated[c].agents) = 1
          /\ consolidated[w].severity = "warning" /\ Len(consolidated[w].agents) = 3
          /\ consolidated[g].severity = "suggestion" /\ Len(consolidated[g].agents) = 1

IsCritical(f) == f.severity = "critical"
IsWarning(f) == f.severity = "warning"
IsSuggestion(f) == f.severity = "suggestion"

\* C16: in that case the warning group comes before the critical group and
\* the critical group before the suggestion group, in the returned list and
\* in the formatted report.
ConsensusBeatsSeverity ==
    RankingCase =>
        /\ PositionOf(consolidated, IsWarning) < PositionOf(consolidated, IsCritical)
        /\ PositionOf(consolidated, IsCritical) < PositionOf(consolidated, IsSuggestion)
        /\ PositionOf(formatted.body, IsWarning) < PositionOf(formatted.body, IsCritical)
        /\ PositionOf(formatted.body, IsCritical) < PositionOf(formatted.body, IsSuggestion)

\* C16 as amended: in the returned list the order is warning, critical,
\* suggestion; the report prints its blocks by severity, so there the order
\* is critical, warning, suggestion.
ConsensusRanking ==
    RankingCase =>
        /\ consolidated[1].severity = "warning" /\ consolidated[1].consensusScore = 6
        /\ consolidated[2].severity = "critical" /\ consolidated[2].consensusScore = 3
        /\ consolidated[3].severity = "suggestion" /\ consolidated[3].consensusScore = 1
        /\ Len(formatted.body) = 3
        /\ formatted.body[1].severity = "critical" /\ formatted.body[1].consensus = <<1, Len(cResults)>>
        /\ formatted.body[2].severity = "warning" /\ formatted.body[2].consensus = <<3, Len(cResults)>>
        /\ formatted.body[3].severity = "suggestion" /\ formatted.body[3].consensus = <<1, Len(cResults)>>

\* C16 witness: the report of such a case was formatted, the critical group
\* having been formed before the warning group reached its third agent.
ConsensusRankingWitness ==
    /\ RankingCase
    /\ cGroups[1].severity = "warning"
    /\ cGroups[2].severity = "critical"
    /\ formatted.kind = "report"

NoDuplicates(q) == \A a, b \in DOMAIN q : a # b => q[a] # q[b]
GroupInvariant(g) ==
    /\ g.consensusScore = Len(g.agents) * SEVERITY_WEIGHT[g.severity]
    /\ Len(g.agents) >= 1
    /\ NoDuplicates(g.agents)

\* C17: after every step of the grouping loop and in the returned list, each
\* group has consensusScore = agents.length x severityWeight(severity), at
\* least one agent, and no display name twice.
ConsensusScoreInvariant ==
    /\ \A k \in DOMAIN cGroups : GroupInvariant(cGroups[k])
    /\ \A k \in DOMAIN consolidated : GroupInvariant(consolidated[k])

\* C17 witness: a returned group holds two agents one of which reported twice,
\* and a merge has raised its severity.
ConsensusScoreInvariantWitness ==
    /\ cpc = "returned"
    /\ \E k \in DOMAIN consolidated :
          /\ Len(consolidated[k].agents) = 2
          /\ Cardinality({i \in 1..processed : memberOf[i] = k}) = 3
          /\ consolidated[k].severity = "critical"
          /\ FlatFinding(1).severity = "warning"

\* the document a returned call was given, presented as the raw text alone
RawDocument(doc) == ppc = "returned" /\ psrc.mode = "raw" /\ psrc.doc = doc

\* C18: a severity out of the enum becomes suggestion; a score of 0 becomes 1,
\* a score of 15 becomes 10, and a missing or non-numeric score ("nine")
\* becomes 5.
ParserNormalization ==
    /\ RawDocument(WithEntry([BaseEntry EXCEPT !.severity = JStr("blocker")]))
          => pout.kind = "output" /\ pout.findings[1].severity = "suggestion"
    /\ RawDocument(WithScore(JNum(0))) => pout.kind = "output" /\ pout.score = 1
    /\ RawDocument(WithScore(JNum(15))) => pout.kind = "output" /\ pout.score = 10
    /\ RawDocument(WithScore(JStr("nine"))) => pout.kind = "output" /\ pout.score = 5
    /\ RawDocument(WithScore(JUndefined)) => pout.kind = "output" /\ pout.score = 5

\* a candidate that parses as JSON with an array-typed findings field
ParsesWithFindingsArray(candidate) ==
    LET p == JSONparse(candidate)
    IN  p.ok /\ p.val.t = "obj" /\ p.val.findings.t = "arr"

\* a validated {findings, summary, score} object
Validated(o) ==
    /\ o.kind = "output"
    /\ o.score \in 1..10
    /\ \A k \in DOMAIN o.findings :
          /\ o.findings[k].file # ""
          /\ o.findings[k].title # ""
          /\ o.findings[k].severity \in Severities
          /\ o.findings[k].line \in Int
          /\ o.findings[k].category # ""

\* C19: a parseReviewOutput call never throws; what it returns is the failure
\* value or a validated object, and it is the failure value whenever no
\* candidate parses as JSON with an array-typed findings field.
ParserRejection ==
    /\ ppc # "threw"
    /\ ppc = "returned" =>
          /\ pout = NullOutput \/ Validated(pout)
          /\ (\A k \in DOMAIN pcands : ~ParsesWithFindingsArray(pcands[k]))
                => pout = NullOutput

\* C19 witness: a call returned the failure value after JSON.parse or a
\* property read threw inside the loop, and no candidate had a findings array.
ParserRejectionWitness ==
    /\ ppc = "returned"
    /\ pout = NullOutput
    /\ Len(pcands) >= 2
    /\ \E k \in DOMAIN pcands : ProcessCandidate(pcands[k]).kind = "throw"
    /\ \E k \in DOMAIN pcands : ProcessCandidate(pcands[k]).kind = "continue"
    /\ \A k \in DOMAIN pcands : ~ParsesWithFindingsArray(pcands[k])

\* a string that is not empty
IsText(j) == j.t = "str" /\ j.v # ""

\* a findings object of the shape of the data model
ValidShape(doc) ==
    /\ doc.t = "obj"
    /\ doc.findings.t = "arr"
    /\ doc.summary.t = "str"
    /\ doc.score.t = "num" /\ doc.score.v \in 1..10
    /\ \A k \in DOMAIN doc.findings.v :
          LET e == doc.findings.v[k]
          IN  /\ e.t = "entry"
              /\ IsText(e.file) /\ IsText(e.title) /\ IsText(e.category)
              /\ e.line.t = "num"
              /\ e.severity.t = "str" /\ e.severity.v \in Severities
              /\ e.description.t = "str"
              /\ e.suggestion = JUndefined \/ IsText(e.suggestion)

\* the structured object a valid document stands for
Original(doc) ==
    [kind |-> "output",
     findings |-> [k \in 1..Len(doc.findings.v) |->
                      LET e == doc.findings.v[k]
                      IN  [file |-> e.file.v, line |-> e.line.v,
                           severity |-> e.severity.v, category |-> e.category.v,
                           title |-> e.title.v, description |-> e.description.v,
                           suggestion |-> IF e.suggestion = JUndefined THEN ""
                                          ELSE e.suggestion.v,
                           special |-> e.special]],
     summary |-> doc.summary.v,
     score |-> doc.score.v]

\* C20: a validly-shaped findings object, serialized and presented inside a
\* code fence, between arbitrary prose or raw, is parsed into an object equal
\* to the original.
ParserRoundTrip ==
    (ppc = "returned" /\ ValidShape(psrc.doc)) => pout = Original(psrc.doc)

BraceFree(prose) == \A k \in DOMAIN prose : prose[k].t \notin {"{", "}"}

\* C20, amended: the same, for prose that holds no brace.
ParserRoundTripBraceFree ==
    (ppc = "returned" /\ ValidShape(psrc.doc)
     /\ BraceFree(psrc.before) /\ BraceFree(psrc.after))
        => pout = Original(psrc.doc)

\* C20 witness: a valid document whose strings hold a brace, between prose on
\* both sides, was recovered by a later candidate after an earlier one failed.
ParserRoundTripWitness ==
    /\ ppc = "returned"
    /\ ValidShape(psrc.doc)
    /\ psrc.mode = "prose"
    /\ psrc.before # <<>> /\ psrc.after # <<>>
    /\ BraceFree(psrc.before) /\ BraceFree(psrc.after)
    /\ psrc.doc.findings.v # <<>>
    /\ psrc.doc.findings.v[1].special # <<>>
    /\ ptried >= 2
    /\ pout = Original(psrc.doc)

\* C21: in a run with stagger delay S the job of item k, the k-th claimed,
\* is not called earlier than k x S ms after the start of the run, and the
\* job of the first item is called at the start.
StaggerCorrectness ==
    rs[1].phase \in {"active", "resolved"} =>
        \A k \in 0..(rs[1].n - 1) :
            startedAt[k] # -1 =>
                /\ startedAt[k] >= k * rs[1].staggerMs
                /\ k = 0 => startedAt[k] = 0

\* C21 witness: with a stagger, the third item was claimed by a worker that
\* had finished another job after the start, and its job has been called.
StaggerCorrectnessWitness ==
    /\ rs[1].phase = "active"
    /\ rs[1].staggerMs > 0
    /\ rs[1].n = 3
    /\ startedAt[1] = rs[1].staggerMs
    /\ startedAt[2] > 2 * rs[1].staggerMs

\* the selected models of a provider
SelectedOf(provider) == Len(SelectSeq(selected, LAMBDA m : m.provider = provider))

\* C22: the selected list holds at most 3 models of the primary provider and
\* at most 1 of each configured secondary provider, every selected model is
\* one the environment reported available, and with an empty list the review
\* fails with no temp file written, no reviewer spawned (no run made) and
\* the single-flight state not set.
ModelSelectionContract ==
    /\ SelectedOf(PRIMARY) <= 3
    /\ \A k \in DOMAIN EXTRA_PROVIDER_PREFERRED :
          SelectedOf(EXTRA_PROVIDER_PREFERRED[k][1]) <= 1
    /\ \A k \in DOMAIN selected :
          \E j \in DOMAIN available :
              /\ available[j].provider = selected[k].provider
              /\ available[j].id = selected[k].modelId
    /\ (spc = "returned" /\ selected = <<>>) =>
          /\ ~tempFiles[1]
          /\ rs[1] = NoRun
          /\ activeAbortController = 0
          /\ hpc[1] \in {"resolving", "done"}
          /\ hpc[1] = "done" => notice[1] = "No AI models available."

\* C22 witness: the environment reported models, none of a configured
\* provider, and the review has failed with the error.
ModelSelectionContractWitness ==
    /\ spc = "returned"
    /\ available # <<>>
    /\ selected = <<>>
    /\ hpc[1] = "done"
    /\ notice[1] = "No AI models available."

\* C23: a review run launches at most 5 reviewer agents.
AgentCount ==
    /\ Len(selected) <= 5
    /\ rs[1].n <= 5

\* the similarities of the finding of an entry to the groups
Similarities(groups, e) ==
    [k \in DOMAIN groups |-> findingSimilarity(e.finding, groups[k])]
\* a similarity <<overlap, minSize>> is at least 0.3
AtLeast03(x) == 10 * x[1] >= 3 * x[2]

IsPrefix(q, r) == Len(q) <= Len(r) /\ \A k \in DOMAIN q : r[k] = q[k]
\* the groups of q are the groups of r, each as many times
SameGroups(q, r) ==
    /\ Len(q) = Len(r)
    /\ \A k \in DOMAIN q :
          Cardinality({j \in DOMAIN q : q[j] = q[k]})
              = Cardinality({j \in DOMAIN r : r[j] = q[k]})

\* C25: in every step of a consolidation no group is removed or split, the
\* number of groups does not decrease, and no group's severity weight,
\* agents.length or consensusScore decreases; the sort keeps every group.
MonotoneGroups ==
    [][/\ Len(cGroups') >= Len(cGroups)
       /\ IsPrefix(memberOf, memberOf')
       /\ \A k \in DOMAIN cGroups :
             /\ SEVERITY_WEIGHT[cGroups'[k].severity] >= SEVERITY_WEIGHT[cGroups[k].severity]
             /\ IsPrefix(cGroups[k].agents, cGroups'[k].agents)
             /\ cGroups'[k].consensusScore >= cGroups[k].consensusScore
             /\ cGroups'[k].file = cGroups[k].file
             /\ cGroups'[k].line = cGroups[k].line
       /\ cpc' = "returned" => SameGroups(cGroups', consolidated')]_vars

\* C25 witness: a group that started as a warning of one agent has become a
\* critical group of two agents with score 6, next to a second group, and the
\* list was returned.
MonotoneGroupsWitness ==
    /\ cpc = "returned"
    /\ processed = 3
    /\ Len(cGroups) = 2
    /\ FlatFinding(1).severity = "warning"
    /\ memberOf[1] = 1
    /\ cGroups[1].severity = "critical"
    /\ Len(cGroups[1].agents) = 2
    /\ cGroups[1].consensusScore = 6

\* the flattened findings merged into group k so far
MembersOf(k) == {i \in 1..processed : memberOf[i] = k}
\* q is a longest of the texts, and absent only if all of them are
LongestOf(q, texts) ==
    /\ q \in texts
    /\ \A x \in texts : TextLength(x) <= TextLength(q)

\* C26: at every point of the grouping loop a group's severity is the highest
\* among the findings merged into it, its description is a longest of theirs,
\* its title is that of a finding that has that description, and its
\* suggestion is a longest of theirs, absent only if none has one.
MergeRepresentative ==
    LET all == Flatten(cResults)
    IN  \A k \in DOMAIN cGroups :
            LET merged == {all[i].finding : i \in MembersOf(k)}
                group == cGroups[k]
            IN  /\ \E f \in merged : f.severity = group.severity
                /\ \A f \in merged :
                      SEVERITY_WEIGHT[f.severity] <= SEVERITY_WEIGHT[group.severity]
                /\ LongestOf(group.description, {f.description : f \in merged})
                /\ \E f \in merged :
                      /\ f.description = group.description
                      /\ f.title = group.title
                /\ LongestOf(group.suggestion, {f.suggestion : f \in merged})

\* C26 witness: a group of three findings took its description and title
\* from the second and kept them at the third, which is shorter, and took
\* the longer suggestion.
MergeRepresentativeWitness ==
    /\ processed = 3
    /\ Len(cGroups) = 1
    /\ cGroups[1].description = FlatFinding(2).description
    /\ cGroups[1].title = FlatFinding(2).title
    /\ FlatFinding(1).title # FlatFinding(2).title
    /\ TextLength(FlatFinding(3).description) < TextLength(FlatFinding(2).description)
    /\ FlatFinding(3).suggestion # <<>>
    /\ cGroups[1].suggestion # FlatFinding(3).suggestion

\* C27: the returned list is in descending consensusScore, and among equal
\* scores in descending severity weight: for every adjacent pair (g, h)
\* either g scores more, or they score the same and g weighs at least as much.
FinalOrdering ==
    cpc \in {"returned", "formatted"} =>
        \A k \in 1..(Len(consolidated) - 1) :
            LET g == consolidated[k]
                h == consolidated[k + 1]
            IN  \/ g.consensusScore > h.consensusScore
                \/ /\ g.consensusScore = h.consensusScore
                   /\ SEVERITY_WEIGHT[g.severity] >= SEVERITY_WEIGHT[h.severity]

\* C27 witness: the sort moved a group: the returned list has a pair of equal
\* score whose heavier group was created later, and a pair of different score.
FinalOrderingWitness ==
    /\ cpc = "returned"
    /\ Len(consolidated) = 3
    /\ consolidated # cGroups
    /\ consolidated[1].consensusScore > consolidated[2].consensusScore
    /\ consolidated[2].consensusScore = consolidated[3].consensusScore
    /\ SEVERITY_WEIGHT[consolidated[2].severity] > SEVERITY_WEIGHT[consolidated[3].severity]
    /\ cGroups[1] = consolidated[3]

\* the results with a parsed output
Successful == {r \in DOMAIN cResults : cResults[r].output # "null"}

\* C28: every name in a group's agents is the name of a result with an output
\* that has a finding merged into that group, a failed result contributes no
\* finding and no name, agents.length is at most the number of successful
\* results, and no printed consensus fraction exceeds 1.
OnlySuccessfulContribute ==
    LET all == Flatten(cResults)
        names == {cResults[r].model : r \in Successful}
    IN  /\ \A i \in 1..processed : all[i].agent \in names
        /\ \A k \in DOMAIN cGroups :
              LET contributors == {all[i].agent : i \in MembersOf(k)}
              IN  /\ \A a \in DOMAIN cGroups[k].agents :
                        cGroups[k].agents[a] \in names \cap contributors
                  /\ Len(cGroups[k].agents) <= Cardinality(Successful)
        /\ cpc = "formatted" =>
              \A b \in DOMAIN formatted.body :
                  formatted.body[b].consensus[1] <= formatted.body[b].consensus[2]

\* C28 witness: of three results one failed; the other two each have two
\* findings in the one group, whose agents are those two, printed as 2/3.
OnlySuccessfulContributeWitness ==
    /\ cpc = "formatted"
    /\ Len(cResults) = 3
    /\ Cardinality(Successful) = 2
    /\ processed = 4
    /\ Len(cGroups) = 1
    /\ Len(cGroups[1].agents) = 2
    /\ Len(formatted.failed) = 1
    /\ formatted.body[1].consensus = <<2, 3>>

\* C29: once the cancellation signal of a session's run has fired, no step
\* of that run spawns a reviewer process: no worker without a live process
\* has one after the step, be it for a job not yet started or for a retry.
NoSpawnAfterCancel ==
    [][\A s \in Sessions :
          (rs[s].phase = "active" /\ rs[s].fn = "review" /\ aborted[s] /\ aborted'[s]) =>
              \A w \in 1..rs[s].limit :
                  (rs'[s].phase = "active" /\ rs'[s].wk[w].proc.alive)
                      => rs[s].wk[w].proc.alive]_vars

\* C30: the candidates are the fenced blocks in order of appearance, then
\* the balanced object around the first findings key, then the text from the
\* first "{" to the last "}", then the whole trimmed text; a returned object
\* is built from the first of them that parses as JSON with an array-typed
\* findings field, never from a later one.
StrategyOrder ==
    /\ (ppc # "called" /\ psrc.mode = "second") =>
          /\ pcands[1] = Trim(SubSeq(psrc.before, 2, Len(psrc.before) - 2))
          /\ pcands[2] = DocText(psrc.doc)
    /\ ppc # "called" => pcands[Len(pcands)] = Trim(ptext)
    /\ (ppc = "returned" /\ pout.kind = "output") =>
          \A k \in 1..(ptried - 1) : ~ParsesWithFindingsArray(pcands[k])

\* an entry of a findings array that is an object with a file and a title
ValidEntry(e) == e.t = "entry" /\ HasFileAndTitle(e)

\* C31: when the text is a document with an array of findings, the call
\* returns an object whose findings are the entries that are objects with a
\* file and a title, in their order; any other entry is dropped alone.
PerFindingValidation ==
    (ppc = "returned" /\ psrc.mode = "raw" /\ psrc.doc.t = "obj"
     /\ psrc.doc.findings.t = "arr") =>
        LET valid == SelectSeq(psrc.doc.findings.v, ValidEntry)
        IN  /\ pout.kind = "output"
            /\ pout.findings = [k \in 1..Len(valid) |-> NormalizeFinding(valid[k])]

\* a line of the complete output that is a well-formed message_end or
\* tool_result_end event with a message
RetainedLine(line) ==
    LET event == ParseLine(line)
    IN  /\ event.ok
        /\ ~event.isNull
        /\ event.type \in {"message_end", "tool_result_end"}
        /\ event.hasMessage
\* the message payloads of those lines of the complete output, in order
Retained ==
    LET kept == SelectSeq(SplitLines(ChunkToString(stdout), <<>>), RetainedLine)
    IN  [k \in 1..Len(kept) |-> ParseLine(kept[k]).message]

\* C32: however stdout is cut into chunks, no line aborts the invocation and
\* the messages retained at close are the message payloads of the
\* well-formed message_end and tool_result_end lines of the complete
\* output, in order.
StreamRetention ==
    /\ stpc # "threw"
    /\ stpc \in {"closed", "extracted"} => messages = Retained

\* the text of the last assistant message of the history, "" if there is none
TextOfLastAssistant ==
    LET assistants == SelectSeq(messages, LAMBDA m : m.role = "assistant")
    IN  IF assistants = <<>> THEN <<>>
        ELSE LET last == assistants[Len(assistants)]
             IN  IF \E k \in DOMAIN last.parts : last.parts[k] = "text"
                 THEN last.body ELSE <<>>

\* C33: the text handed to the parser is the text of the last assistant
\* message of the retained history, never that of an earlier one, and is
\* empty when the history holds no assistant message.
FinalAnswer ==
    stpc = "extracted" => finalText = TextOfLastAssistant

\* C34: the report of a run of at least one agent states that no issues
\* were found only if some agent produced a parsed output and the
\* consolidated list is empty; when every agent failed it holds the failure
\* line and does not state that no issues were found.
FailureIsNotClean ==
    (cpc = "formatted" /\ Len(cResults) >= 1) =>
        /\ formatted.noIssues => (Successful # {} /\ consolidated = <<>>)
        /\ Successful = {} => (Len(formatted.failed) = Len(cResults) /\ ~formatted.noIssues)

\* the least of a set of numbers that is not empty
Least(S) == CHOOSE x \in S : \A y \in S : x <= y

\* what a group made of the findings whose indices are in members is compared
\* by: the file and line of its first member, the title and description of
\* its first member of the longest description
RepresentativeOf(all, members) ==
    LET first == all[Least(members)].finding
        longest == {i \in members :
                       \A j \in members :
                           TextLength(all[j].finding.description)
                               <= TextLength(all[i].finding.description)}
        detailed == all[Least(longest)].finding
    IN  [file |-> first.file, line |-> first.line,
         title |-> detailed.title, description |-> detailed.description]

\* C35: every group is compared by that representative, not by its members:
\* a pass of the grouping loop merges its finding exactly when its similarity
\* to the representative of some group is at least 0.3, whatever its
\* similarity to the findings of the group taken alone.
TransitiveMerge ==
    [][processed' = processed + 1 =>
          LET all == Flatten(cResults)
              f == all[processed'].finding
          IN  /\ \A k \in DOMAIN cGroups :
                    LET r == RepresentativeOf(all, MembersOf(k))
                    IN  /\ cGroups[k].file = r.file /\ cGroups[k].line = r.line
                        /\ cGroups[k].title = r.title
                        /\ cGroups[k].description = r.description
              /\ (Len(cGroups') = Len(cGroups)) <=>
                    \E k \in DOMAIN cGroups :
                        AtLeast03(findingSimilarity(f, RepresentativeOf(all, MembersOf(k))))]_vars

\* C35 witness: the third finding was merged into the group of the first two
\* although its similarity to each of them alone is below 0.3.
TransitiveMergeWitness ==
    /\ processed = 3
    /\ Len(cGroups) = 1
    /\ memberOf = <<1, 1, 1>>
    /\ ~AtLeast03(findingSimilarity(FlatFinding(3), FlatFinding(1)))
    /\ ~AtLeast03(findingSimilarity(FlatFinding(3), FlatFinding(2)))

\* C36: a group's file and line are those of the finding that created it;
\* every finding merged into it has the group's file and a line within 15 of
\* the group's line.
GroupLocation ==
    LET all == Flatten(cResults)
    IN  \A k \in DOMAIN cGroups :
            LET first == all[Least(MembersOf(k))].finding
            IN  /\ cGroups[k].file = first.file
                /\ cGroups[k].line = first.line
                /\ \A i \in MembersOf(k) :
                      /\ all[i].finding.file = cGroups[k].file
                      /\ Abs(all[i].finding.line - cGroups[k].line) <= 15

\* C36 witness: a group created at line 10 holds a finding of line 25 and one
\* of line 0 and is still at line 10; a finding of another file is in
\* another group.
GroupLocationWitness ==
    /\ processed = 4
    /\ Len(cGroups) = 2
    /\ cGroups[1].line = 10
    /\ \E i, j \in MembersOf(1) : FlatFinding(i).line = 25 /\ FlatFinding(j).line = 0
    /\ cGroups[2].file # cGroups[1].file

\* C37: the step in which the handler of session s finishes leaves
\* activeAbortController alone when it holds the controller of another
\* session, which is still running.
CleanupOwnSession ==
    [][\A s \in Sessions :
          (hpc[s] = "running" /\ hpc'[s] # "running"
           /\ activeAbortController \notin {0, s}) =>
              activeAbortController' = activeAbortController]_vars

\* C38: while a reviewer process spawned for a session is running, the
\* session's temporary files exist, also after its cancellation and for the
\* process of a retry.
TempFilesOutliveReaders ==
    \A s \in Sessions :
        \A w \in 1..rs[s].limit :
            (rs[s].fn = "review" /\ rs[s].wk[w].proc.alive) => tempFiles[s]

\* C38 witness: a cancelled session whose first job has returned still has
\* the reviewer of a retry running, and its temporary files.
TempFilesOutliveReadersWitness ==
    \E s \in Sessions :
        /\ aborted[s]
        /\ tempFiles[s]
        /\ rs[s].fn = "review"
        /\ rs[s].n = 2
        /\ rs[s].results[0] # Empty
        /\ \E w \in 1..rs[s].limit :
              /\ rs[s].wk[w].proc.alive
              /\ rs[s].wk[w].attempt >= 1


\* C39: in a run with stagger delay S > 0 no two jobs begin less than S ms
\* apart, whatever the items, the cap and the durations of the jobs.
SpawnSpacing ==
    (rs[1].phase \in {"active", "resolved"} /\ rs[1].staggerMs > 0) =>
        \A i, j \in 0..(rs[1].n - 1) :
            (i < j /\ startedAt[i] # -1 /\ startedAt[j] # -1) =>
                startedAt[j] - startedAt[i] >= rs[1].staggerMs

\* C39, as the code has it: in a run with stagger delay S > 0 the calls of two
\* jobs are due at least S ms apart (as many S as their indices differ by),
\* whatever the items, the cap and the durations of the jobs, and no job
\* begins before it is due; a timer that fires late can bring two jobs closer.
SpawnSchedule ==
    (rs[1].phase \in {"active", "resolved"} /\ rs[1].staggerMs > 0) =>
        /\ \A i, j \in 0..(rs[1].n - 1) :
               (i < j /\ dueAt[i] # -1 /\ dueAt[j] # -1) =>
                   dueAt[j] - dueAt[i] >= (j - i) * rs[1].staggerMs
        /\ \A i \in 0..(rs[1].n - 1) :
               startedAt[i] # -1 => (dueAt[i] # -1 /\ startedAt[i] >= dueAt[i])

\* a job finished at once, its worker claimed a later index after the others,
\* and that job began on time, more than one S after the job before it
SpawnScheduleWitness ==
    /\ rs[1].phase \in {"active", "resolved"}
    /\ rs[1].staggerMs > 0
    /\ rs[1].n >= 3
    /\ rs[1].limit < rs[1].n
    /\ startedAt[rs[1].n - 1] # -1
    /\ startedAt[rs[1].n - 1] = dueAt[rs[1].n - 1]
    /\ dueAt[rs[1].n - 1] - dueAt[rs[1].n - 2] > rs[1].staggerMs

====
